---- MODULE Spec2Model ----
(***************************************************************************)
(* A model of the XSS scanner's detection engine: the script risk scorer   *)
(* (modules/script_analyzer.py), the HTML structural analyzer              *)
(* (modules/html_parser.py), the visual field detector                     *)
(* (modules/visual_analyzer.py), the correlation facade                    *)
(* (modules/xss_detector.py), report deduplication                         *)
(* (utils/report_generator.py), the crawler (modules/web_crawler.py) and   *)
(* the page loop of index.py.                                              *)
(*                                                                         *)
(* The specifications sharing the module:                                  *)
(*   SpecScript     one script content scored, grown by one signature, and *)
(*                  scored again;                                          *)
(*   SpecDedup      a vulnerability list deduplicated, then deduplicated   *)
(*                  again;                                                 *)
(*   Spec           XSSDetector.analyze run step by step on one page;      *)
(*   SpecParse      HTMLParser.parse applied to one markup, with or        *)
(*                  without a failing sub-analysis;                        *)
(*   SpecCorrelate  the four correlation passes on given analyses;         *)
(*   SpecPages      successive analyze calls on one XSSDetector, as the    *)
(*                  loop of index.py makes them; SpecRun adds fairness;    *)
(*   SpecReport     XSSDetector.generate_report on one list of records;    *)
(*   SpecCrawl      WebCrawler.crawl on one site; SpecCrawlLive adds       *)
(*                  fairness.                                              *)
(***************************************************************************)
EXTENDS Integers, Sequences, FiniteSets, TLC

VARIABLES
    \* ---- SpecScript: ScriptAnalyzer._analyze_script_simplified ----
    sc_content,     \* the script content being scored
    sc_verdict,     \* the verdict of the last scoring
    sc_prev,        \* the verdict before the content grew by one signature
    sc_pc,          \* "idle" | "new" | "scored" | "grown" | "rescored"
    \* ---- SpecDedup: ReportGenerator._deduplicate_vulnerabilities ----
    rg_vulns,       \* the list handed to the report generator
    rg_unique,      \* the result of deduplicating rg_vulns
    rg_again,       \* the result of deduplicating rg_unique
    rg_pc,          \* "idle" | "start" | "once" | "twice"
    \* ---- Spec: XSSDetector.analyze ----
    page_data,          \* the page record handed to analyze
    pc,                 \* the position of analyze in its body
    visual_analysis,    \* local of analyze
    html_analysis,      \* local of analyze
    script_analysis,    \* local of analyze
    script_error,       \* TRUE iff the inner except of analyze (line 70) ran
    pass_out,           \* the four passes' return values so far
    vulnerabilities,    \* local of _correlate_analyses: records accumulated
    raised,             \* TRUE iff an exception reached the outer except
    result,             \* the value analyze returned
    \* ---- HTMLParser.parse on one markup (specification SpecParse)
    hp_html,            \* the markup handed to parse
    hp_results,         \* the bundle parse returned
    hp_pc,              \* "idle" | "start" | "returned"
    \* ---- successive analyze calls on one XSSDetector (specification SpecPages)
    pending,            \* the page records still to be handed to analyze
    analysed,           \* the page records already analysed, oldest first
    run_pages,          \* index.py: pages_data, the list the loop iterates
    run_results,        \* index.py: results, the accumulated records
    \* ---- XSSDetector.generate_report on one list (specification SpecReport)
    gr_vulns,           \* the list handed to generate_report
    gr_file,            \* what is stored at output_path (None: no file)
    gr_return,          \* the value generate_report returned
    gr_pc,              \* "idle" | "start" | "returned"
    \* ---- WebCrawler.crawl on one site (specification SpecCrawl)
    cr_args,            \* the arguments of crawl: start_url and depth
    site,               \* the web: the links of the page behind each URL
    visited_urls,       \* self.visited_urls
    pages_data,         \* local of crawl: the page records collected
    stack,              \* the active _crawl_recursive calls, innermost last
    fetched,            \* the _get_page_data calls made, oldest first
    followed,           \* the recursive calls made from the link loop
    cr_pc               \* "idle" | "start" | "crawling" | "returned"

scriptVars == <<sc_content, sc_verdict, sc_prev, sc_pc>>
dedupVars  == <<rg_vulns, rg_unique, rg_again, rg_pc>>
pageVars   == <<page_data, pc, visual_analysis, html_analysis, script_analysis,
                script_error, pass_out, vulnerabilities, raised, result>>
parseVars  == <<hp_html, hp_results, hp_pc>>
callVars   == <<pending, analysed, run_pages, run_results>>
reportVars == <<gr_vulns, gr_file, gr_return, gr_pc>>
crawlVars  == <<cr_args, site, visited_urls, pages_data, stack, fetched, followed, cr_pc>>
vars == <<sc_content, sc_verdict, sc_prev, sc_pc,
          rg_vulns, rg_unique, rg_again, rg_pc,
          page_data, pc, visual_analysis, html_analysis, script_analysis,
          script_error, pass_out, vulnerabilities, raised, result,
          hp_html, hp_results, hp_pc, pending, analysed, run_pages,
          run_results, gr_vulns, gr_file, gr_return, gr_pc,
          cr_args, site, visited_urls, pages_data, stack, fetched, followed,
          cr_pc>>

-----------------------------------------------------------------------------
(* Python string primitives used by the code.                              *)

\* str.lower() on one character (ASCII letters)
LowerChar(c) ==
    CASE c = "A" -> "a" [] c = "B" -> "b" [] c = "C" -> "c" [] c = "D" -> "d"
      [] c = "E" -> "e" [] c = "F" -> "f" [] c = "G" -> "g" [] c = "H" -> "h"
      [] c = "I" -> "i" [] c = "J" -> "j" [] c = "K" -> "k" [] c = "L" -> "l"
      [] c = "M" -> "m" [] c = "N" -> "n" [] c = "O" -> "o" [] c = "P" -> "p"
      [] c = "Q" -> "q" [] c = "R" -> "r" [] c = "S" -> "s" [] c = "T" -> "t"
      [] c = "U" -> "u" [] c = "V" -> "v" [] c = "W" -> "w" [] c = "X" -> "x"
      [] c = "Y" -> "y" [] c = "Z" -> "z" [] OTHER -> c

\* str.lower()
RECURSIVE Lower(_)
Lower(s) ==
    IF s = "" THEN ""
    ELSE LowerChar(SubSeq(s, 1, 1)) \o Lower(SubSeq(s, 2, Len(s)))

\* `sub in s` on strings
Contains(s, sub) ==
    \E i \in 1..(Len(s) - Len(sub) + 1) : SubSeq(s, i, i + Len(sub) - 1) = sub

Min(a, b) == IF a <= b THEN a ELSE b

-----------------------------------------------------------------------------
(* ScriptAnalyzer (modules/script_analyzer.py).                            *)
(*                                                                         *)
(* A script content is abstracted by the set of signatures that            *)
(* re.finditer / re.search find at least once in it: `matches`.  Each      *)
(* signature is named by the text it looks for.                            *)

dangerous_js_functions ==
    [ high_risk   |-> << "eval(", "document.write(", "innerHTML=", "outerHTML=",
                         "setTimeout('", "setInterval('", "location.href=",
                         "document.cookie=" >>,
      medium_risk |-> << ".ajax(", "fetch(", "XMLHttpRequest", ".src=",
                         "document.createElement(" >> ]

obfuscation_patterns == << "String.fromCharCode", "atob(", "['a'+'b']" >>

Range(f) == { f[i] : i \in DOMAIN f }

HighSigs   == Range(dangerous_js_functions.high_risk)
MediumSigs == Range(dangerous_js_functions.medium_risk)
ObfSigs    == Range(obfuscation_patterns)
AllSigs    == HighSigs \cup MediumSigs \cup ObfSigs

\* A content that is a string: the signatures found in it.
Text(matches) == [kind |-> "text", matches |-> matches]
\* content absent (None), the empty string, and a truthy value that is no string
NoneContent    == [kind |-> "none",    matches |-> {}]
EmptyContent   == [kind |-> "empty",   matches |-> {}]
NonTextContent == [kind |-> "nontext", matches |-> {}]

\* `not content`, were it `content is None`
Falsy_none_only(content) == content.kind = "none"

\* `not content`
Falsy(content) == content.kind \in {"none", "empty"}

\* re.finditer / re.search raise TypeError on a content that is no string
ScanRaises(content) == content.kind = "nontext"

\* one `for pattern in ...: matches = list(re.finditer(...)); if matches: append`
RECURSIVE scan_patterns(_, _, _)
scan_patterns(patterns, script_content, risk) ==
    IF patterns = << >> THEN << >>
    ELSE (IF Head(patterns) \in script_content.matches
          THEN << [pattern |-> Head(patterns), match |-> Head(patterns),
                   risk |-> risk] >>
          ELSE << >>)
         \o scan_patterns(Tail(patterns), script_content, risk)

\* step 2 with the guard dropped: the medium-risk set is always scanned
medium_risk_scan_always(script_content, high_risk_matches) ==
    scan_patterns(dangerous_js_functions.medium_risk, script_content, "medium")

\* step 2: the medium-risk set is scanned only if no high-risk signature matched
medium_risk_scan(script_content, high_risk_matches) ==
    IF high_risk_matches = << >>
    THEN scan_patterns(dangerous_js_functions.medium_risk, script_content, "medium")
    ELSE << >>

\* step 3: any obfuscation signature found
obfuscation_scan(script_content) ==
    \E i \in DOMAIN obfuscation_patterns :
        obfuscation_patterns[i] \in script_content.matches

\* the level thresholds with a strict comparison for 'high'
risk_level_strict(risk_score) ==
    IF risk_score > 70 THEN "high"
    ELSE IF risk_score >= 40 THEN "medium"
    ELSE IF risk_score >= 10 THEN "low"
    ELSE "safe"

\* the level thresholds with 'high' starting at 75
risk_level_high_from_75(risk_score) ==
    IF risk_score >= 75 THEN "high"
    ELSE IF risk_score >= 40 THEN "medium"
    ELSE IF risk_score >= 10 THEN "low"
    ELSE "safe"

\* the level thresholds, applied to the unclamped score
risk_level_for(risk_score) ==
    IF risk_score >= 70 THEN "high"
    ELSE IF risk_score >= 40 THEN "medium"
    ELSE IF risk_score >= 10 THEN "low"
    ELSE "safe"

CountRisk(funcs, risk) == Len(SelectSeq(funcs, LAMBDA f : f.risk = risk))

script_name(script_id) == "script_" \o ToString(script_id)

analyze_script_simplified(script_content, script_id) ==
    LET high_risk_matches ==
            scan_patterns(dangerous_js_functions.high_risk, script_content, "high")
        dangerous_functions ==
            high_risk_matches \o medium_risk_scan(script_content, high_risk_matches)
        obfuscation_detected == obfuscation_scan(script_content)
        high_risk_count   == CountRisk(dangerous_functions, "high")
        medium_risk_count == CountRisk(dangerous_functions, "medium")
        risk_score == high_risk_count * 25 + medium_risk_count * 10
                      + (IF obfuscation_detected THEN 20 ELSE 0)
    IN  [ id                   |-> script_name(script_id),
          risk_level           |-> risk_level_for(risk_score),
          risk_score           |-> Min(100, risk_score),
          dangerous_functions  |-> dangerous_functions,
          obfuscation_detected |-> obfuscation_detected ]

NoVerdict ==
    [ id |-> "", risk_level |-> "safe", risk_score |-> 0,
      dangerous_functions |-> << >>, obfuscation_detected |-> FALSE ]

\* ScriptAnalyzer.analyze: the loop over the script list.  An exception of
\* _analyze_script_simplified is not caught here and ends the loop.
RECURSIVE analyze_loop(_, _, _)
analyze_loop(scripts, i, results) ==
    IF i >= Len(scripts) THEN [raised |-> FALSE, results |-> results]
    ELSE
        LET script  == scripts[i + 1]
            content == script.content
        IN  IF script.type = "external" /\ Falsy(content)
            THEN analyze_loop(scripts, i + 1, results)
            ELSE IF Falsy(content)
            THEN analyze_loop(scripts, i + 1, results)
            ELSE IF ScanRaises(content)
            THEN [raised |-> TRUE, results |-> results]
            ELSE
                LET sa == analyze_script_simplified(content, i)
                IN  analyze_loop(scripts, i + 1,
                        [results EXCEPT
                            !.script_analysis   = Append(@, sa),
                            !.high_risk_scripts =
                                IF sa.risk_level = "high" THEN @ + 1 ELSE @,
                            !.medium_risk_scripts =
                                IF sa.risk_level = "medium" THEN @ + 1 ELSE @])

ScriptAnalyzer_analyze(scripts) ==
    analyze_loop(scripts, 0,
        [ scripts_analyzed    |-> Len(scripts),
          high_risk_scripts   |-> 0,
          medium_risk_scripts |-> 0,
          script_analysis     |-> << >> ])

-----------------------------------------------------------------------------
(* ReportGenerator._deduplicate_vulnerabilities (utils/report_generator.py) *)

\* the key with the description left out
dedup_key_no_description(vuln) == << vuln.url, vuln.type >>

\* key = (vuln.get('url', ''), vuln.get('type', ''), vuln.get('description', ''))
dedup_key(vuln) == << vuln.url, vuln.type, vuln.description >>

RECURSIVE dedup_loop(_, _, _)
dedup_loop(vulns, seen, unique_vulns) ==
    IF vulns = << >> THEN unique_vulns
    ELSE LET vuln == Head(vulns)
             key  == dedup_key(vuln)
         IN  IF key \notin seen
             THEN dedup_loop(Tail(vulns), seen \cup {key}, Append(unique_vulns, vuln))
             ELSE dedup_loop(Tail(vulns), seen, unique_vulns)

deduplicate_vulnerabilities(vulns) == dedup_loop(vulns, {}, << >>)

-----------------------------------------------------------------------------
(* HTMLParser (modules/html_parser.py).                                    *)
(*                                                                         *)
(* The tree BeautifulSoup builds is abstracted as the sequence of its      *)
(* elements in document order.  An element is a record                     *)
(*   tag      the tag name (lower case, as the parser delivers it)         *)
(*   attrs    tag.attrs: a sequence of <<name, value>> pairs with pairwise *)
(*            distinct lower-case names, in the dict's iteration order     *)
(*   options  for a select: the value attribute of each nested option      *)
(*   in_form  the element has a form ancestor                              *)
(*   js       for a script: what _find_suspicious_js_patterns returns for  *)
(*            its text (the regular-expression scan is not modelled)       *)
(*   query    for an anchor: the (name, value) pairs urllib decodes from   *)
(*            the href's query string, in order                            *)
(*   malformed  for an anchor: urlparse raises on the href                 *)
(*   children for a form: its descendant input, textarea, select and       *)
(*            button elements in document order (they are elements of the  *)
(*            sequence too, after the form)                                *)
(*                                                                         *)
(* The markup handed to parse is a record [soup, raw, fault]: the elements, *)
(* the matches re.finditer yields on the text, and the step of parse during *)
(* which an exception is raised ("none" if none): "soup" when BeautifulSoup *)
(* rejects the argument (None), "suspicious_patterns" when the markup is a  *)
(* bytes object (re.finditer raises TypeError on a str pattern), any step   *)
(* when the interpreter's recursion or memory limit is hit walking the tree *)

event_attributes ==
    { "onload", "onerror", "onclick", "onmouseover", "onmouseout",
      "onkeypress", "onkeydown", "onkeyup", "onchange", "onfocus",
      "onblur", "onsubmit", "onreset", "ondblclick", "oncontextmenu",
      "ondrag", "ondrop", "onmousedown", "onmouseup", "onpaste",
      "oncut", "oncopy", "onselect", "onready", "onunload" }

\* tag.get(name, default)
RECURSIVE tag_get(_, _, _)
tag_get(attrs, name, default) ==
    IF attrs = << >> THEN default
    ELSE IF Head(attrs)[1] = name THEN Head(attrs)[2]
    ELSE tag_get(Tail(attrs), name, default)

\* dict.get(key, default) on a record
Get(d, key, default) == IF key \in DOMAIN d THEN d[key] ELSE default

\* the attributes dict of an info record: the attributes not in `own`
other_attributes(attrs, own) == SelectSeq(attrs, LAMBDA a : a[1] \notin own)

\* the checks of one attribute of an <input>: lines 136-144
input_attr_checks(info, attr, value) ==
    LET after_event ==
            IF attr \in event_attributes
            THEN [ suspicious |-> TRUE,
                   xss_vector |-> "Event handler: " \o attr \o "=" \o value ] @@ info
            ELSE info
    IN  IF Contains(Lower(value), "javascript:")
        THEN [ suspicious |-> TRUE,
               xss_vector |-> "JavaScript in attribute: " \o attr \o "=" \o value ]
             @@ after_event
        ELSE after_event

\* the check of one attribute of a <textarea> or <select>: lines 165-168, 203-206
event_attr_check(info, attr, value) ==
    IF attr \in event_attributes
    THEN [ suspicious |-> TRUE,
           xss_vector |-> "Event handler: " \o attr \o "=" \o value ] @@ info
    ELSE info

\* for attr, value in tag.attrs.items(): ...   (the <input> loop)
RECURSIVE input_attr_loop(_, _)
input_attr_loop(info, attrs) ==
    IF attrs = << >> THEN info
    ELSE input_attr_loop(input_attr_checks(info, Head(attrs)[1], Head(attrs)[2]),
                         Tail(attrs))

\* for attr, value in tag.attrs.items(): ...   (the <textarea>/<select> loop)
RECURSIVE event_attr_loop(_, _)
event_attr_loop(info, attrs) ==
    IF attrs = << >> THEN info
    ELSE event_attr_loop(event_attr_check(info, Head(attrs)[1], Head(attrs)[2]),
                         Tail(attrs))

\* for option in tag.find_all('option'): ...   (lines 185-196)
RECURSIVE option_loop(_, _)
option_loop(info, options) ==
    IF options = << >> THEN info
    ELSE option_loop(
            IF Contains(Lower(Head(options)), "javascript:")
            THEN [ suspicious |-> TRUE,
                   xss_vector |-> "JavaScript in option value: " \o Head(options) ]
                 @@ info
            ELSE info,
            Tail(options))

input_info(tag) ==
    input_attr_loop(
        [ tag         |-> "input",
          type        |-> tag_get(tag.attrs, "type", "text"),
          name        |-> tag_get(tag.attrs, "name", ""),
          id          |-> tag_get(tag.attrs, "id", ""),
          value       |-> tag_get(tag.attrs, "value", ""),
          attributes  |-> other_attributes(tag.attrs, {"type", "name", "id", "value"}),
          suspicious  |-> FALSE,
          parent_form |-> tag.in_form ],
        tag.attrs)

textarea_info(tag) ==
    event_attr_loop(
        [ tag         |-> "textarea",
          name        |-> tag_get(tag.attrs, "name", ""),
          id          |-> tag_get(tag.attrs, "id", ""),
          value       |-> "",
          attributes  |-> other_attributes(tag.attrs, {"name", "id"}),
          suspicious  |-> FALSE,
          parent_form |-> tag.in_form ],
        tag.attrs)

select_info(tag) ==
    event_attr_loop(
        option_loop(
            [ tag         |-> "select",
              name        |-> tag_get(tag.attrs, "name", ""),
              id          |-> tag_get(tag.attrs, "id", ""),
              options     |-> tag.options,
              attributes  |-> other_attributes(tag.attrs, {"name", "id"}),
              suspicious  |-> FALSE,
              parent_form |-> tag.in_form ],
            tag.options),
        tag.attrs)

\* soup.find_all(name): the elements of that tag, in document order
find_all(soup, name) == SelectSeq(soup, LAMBDA t : t.tag = name)

RECURSIVE MapSeq(_, _)
MapSeq(Op(_), s) ==
    IF s = << >> THEN << >> ELSE << Op(Head(s)) >> \o MapSeq(Op, Tail(s))

\* HTMLParser._analyze_inputs: inputs, then textareas, then selects
analyze_inputs(soup) ==
    MapSeq(input_info, find_all(soup, "input"))
    \o MapSeq(textarea_info, find_all(soup, "textarea"))
    \o MapSeq(select_info, find_all(soup, "select"))

\* the handlers map holding only the first event attribute met
handlers_of_first(tag) ==
    LET all == SelectSeq(tag.attrs, LAMBDA a : Lower(a[1]) \in event_attributes)
    IN  IF all = << >> THEN << >> ELSE << Head(all) >>

\* the event attributes of a tag, as (name, value) pairs: lines 302-314
handlers_of(tag) == SelectSeq(tag.attrs, LAMBDA a : Lower(a[1]) \in event_attributes)

\* HTMLParser._analyze_event_handlers: one binding per element with handlers
RECURSIVE analyze_event_handlers(_)
analyze_event_handlers(soup) ==
    IF soup = << >> THEN << >>
    ELSE LET tag == Head(soup)
             handlers == handlers_of(tag)
         IN  (IF handlers # << >>
              THEN << [ tag_name |-> tag.tag,
                        id       |-> tag_get(tag.attrs, "id", ""),
                        class    |-> tag_get(tag.attrs, "class", ""),
                        handlers |-> handlers ] >>
              ELSE << >>)
             \o analyze_event_handlers(Tail(soup))

\* the attribute loop of a <script> tag: lines 350-357
RECURSIVE script_attr_loop(_, _)
script_attr_loop(info, attrs) ==
    IF attrs = << >> THEN info
    ELSE LET attr == Head(attrs)[1]
             value == Head(attrs)[2]
         IN  script_attr_loop(
                IF attr # "src" /\ attr \in event_attributes
                THEN [info EXCEPT
                        !.suspicious = TRUE,
                        !.suspicious_patterns =
                            Append(@, "Event handler in script tag: "
                                      \o attr \o "=" \o value)]
                ELSE info,
                Tail(attrs))

inline_script_info(tag, i) ==
    LET after_attrs ==
            script_attr_loop(
                [ id         |-> "inline_script_" \o ToString(i),
                  attributes |-> other_attributes(tag.attrs, {"src"}),
                  suspicious |-> FALSE,
                  suspicious_patterns |-> << >> ],
                tag.attrs)
    IN  IF tag.js # << >>
        THEN [after_attrs EXCEPT !.suspicious = TRUE,
                                 !.suspicious_patterns = @ \o tag.js]
        ELSE after_attrs

has_attr(tag, name) == \E k \in DOMAIN tag.attrs : tag.attrs[k][1] = name

\* HTMLParser._analyze_inline_scripts: i counts every <script>, with src or not
RECURSIVE inline_script_loop(_, _)
inline_script_loop(tags, i) ==
    IF tags = << >> THEN << >>
    ELSE (IF has_attr(Head(tags), "src") THEN << >>
          ELSE << inline_script_info(Head(tags), i) >>)
         \o inline_script_loop(Tail(tags), i + 1)

analyze_inline_scripts(soup) == inline_script_loop(find_all(soup, "script"), 0)

\* s[:n]
Prefix(s, n) == SubSeq(s, 1, Min(n, Len(s)))

\* the excerpt, were a match of exactly 100 characters marked as cut
excerpt_from_100(text) ==
    Prefix(text, 100) \o (IF Len(text) >= 100 THEN "..." ELSE "")

\* match.group(0)[:100] + ('...' if len(match.group(0)) > 100 else '')
excerpt(text) == Prefix(text, 100) \o (IF Len(text) > 100 THEN "..." ELSE "")

\* HTMLParser._find_suspicious_patterns.  `raw` is what re.finditer yields on
\* the markup text, pattern by pattern: records [pattern, text, start, context],
\* context being the window _get_context cuts around the match start.
pattern_match(m) ==
    [ pattern  |-> m.pattern,
      match    |-> excerpt(m.text),
      position |-> << m.start, m.start + Len(m.text) >>,
      context  |-> m.context ]

find_suspicious_patterns(raw) == MapSeq(pattern_match, raw)

StartsWith(s, prefix) ==
    Len(s) >= Len(prefix) /\ SubSeq(s, 1, Len(prefix)) = prefix

\* {k: v[0] if v else '' for k, v in parse_qs(query).items()}: parse_qs drops
\* blank values and groups the others by name; the first value of each name is kept
RECURSIVE first_values(_, _)
first_values(query, seen) ==
    IF query = << >> THEN << >>
    ELSE LET k == Head(query)[1]
             v == Head(query)[2]
         IN  IF v = "" \/ k \in seen THEN first_values(Tail(query), seen)
             ELSE << << k, v >> >> \o first_values(Tail(query), seen \cup {k})

suspicious_value(value) ==
    \E p \in {"<script", "javascript:", "onerror=", "onload="} :
        Contains(Lower(value), p)

\* for param, value in link_info['parameters'].items(): ...  (lines 476-479)
RECURSIVE parameter_loop(_, _)
parameter_loop(info, parameters) ==
    IF parameters = << >> THEN info
    ELSE parameter_loop(
            IF suspicious_value(Head(parameters)[2])
            THEN [ suspicious |-> TRUE,
                   xss_vector |-> "Suspicious parameter: " \o Head(parameters)[1]
                                  \o "=" \o Prefix(Head(parameters)[2], 100) ] @@ info
            ELSE info,
            Tail(parameters))

\* for attr in tag.attrs: ...  (lines 484-487)
RECURSIVE link_attr_loop(_, _)
link_attr_loop(info, attrs) ==
    IF attrs = << >> THEN info
    ELSE link_attr_loop(
            IF Lower(Head(attrs)[1]) \in event_attributes
            THEN [ suspicious |-> TRUE,
                   xss_vector |-> "Event handler in link: " \o Head(attrs)[1]
                                  \o "=" \o Head(attrs)[2] ] @@ info
            ELSE info,
            Tail(attrs))

link_info(tag) ==
    LET href == tag_get(tag.attrs, "href", "")
        base == [ href |-> href, text |-> "", suspicious |-> FALSE ]
        absolute == \E scheme \in {"http:", "https:", "ftp:"} :
                        StartsWith(Lower(href), scheme)
        by_href ==
            IF StartsWith(Lower(href), "javascript:")
            THEN [ suspicious |-> TRUE,
                   xss_vector |-> "JavaScript URI: " \o Prefix(href, 100) ] @@ base
            ELSE IF Contains(href, "?") /\ ~absolute
            THEN [ has_parameters |-> TRUE ] @@ base
            ELSE IF Contains(href, "?")
            THEN IF tag.malformed THEN base
                 ELSE LET parameters == first_values(tag.query, {})
                      IN  parameter_loop(
                            [ parameters |-> parameters,
                              has_parameters |-> TRUE ] @@ base,
                            parameters)
            ELSE base
    IN  link_attr_loop(by_href, tag.attrs)

\* HTMLParser._analyze_links: anchors with an href, kept if suspicious or
\* parameter-bearing
analyze_links(soup) ==
    SelectSeq(
        MapSeq(link_info,
               SelectSeq(find_all(soup, "a"), LAMBDA t : has_attr(t, "href"))),
        LAMBDA link : link.suspicious \/ Get(link, "has_parameters", FALSE))

UpperChar(c) ==
    CASE c = "a" -> "A" [] c = "b" -> "B" [] c = "c" -> "C" [] c = "d" -> "D"
      [] c = "e" -> "E" [] c = "f" -> "F" [] c = "g" -> "G" [] c = "h" -> "H"
      [] c = "i" -> "I" [] c = "j" -> "J" [] c = "k" -> "K" [] c = "l" -> "L"
      [] c = "m" -> "M" [] c = "n" -> "N" [] c = "o" -> "O" [] c = "p" -> "P"
      [] c = "q" -> "Q" [] c = "r" -> "R" [] c = "s" -> "S" [] c = "t" -> "T"
      [] c = "u" -> "U" [] c = "v" -> "V" [] c = "w" -> "W" [] c = "x" -> "X"
      [] c = "y" -> "Y" [] c = "z" -> "Z" [] OTHER -> c

\* str.upper
RECURSIVE Upper(_)
Upper(s) ==
    IF Len(s) = 0 THEN ""
    ELSE UpperChar(SubSeq(s, 1, 1)) \o Upper(SubSeq(s, 2, Len(s)))

\* lines 243-261: the fields and submit buttons of a form, in document order
form_field(input_tag) ==
    LET input_type == IF input_tag.tag \in {"textarea", "select"} THEN input_tag.tag
                      ELSE tag_get(input_tag.attrs, "type", "text")
    IN  [ type  |-> input_type,
          name  |-> tag_get(input_tag.attrs, "name", ""),
          id    |-> tag_get(input_tag.attrs, "id", ""),
          value |-> IF input_tag.tag # "textarea"
                    THEN tag_get(input_tag.attrs, "value", "") ELSE "" ]

is_submit_input(input_tag) ==
    /\ input_tag.tag = "input"
    /\ tag_get(input_tag.attrs, "type", "text") \in {"submit", "image", "button"}

\* lines 264-270
button_info(button_tag) ==
    [ type  |-> tag_get(button_tag.attrs, "type", "submit"),
      value |-> "",
      name  |-> tag_get(button_tag.attrs, "name", ""),
      id    |-> tag_get(button_tag.attrs, "id", "") ]

form_info(tag) ==
    LET action == tag_get(tag.attrs, "action", "")
        fields == SelectSeq(tag.children,
                            LAMBDA t : t.tag \in {"input", "textarea", "select"})
        base ==
            [ action         |-> action,
              method         |-> Upper(tag_get(tag.attrs, "method", "get")),
              id             |-> tag_get(tag.attrs, "id", ""),
              name           |-> tag_get(tag.attrs, "name", ""),
              attributes     |-> other_attributes(tag.attrs,
                                    {"action", "method", "id", "name"}),
              inputs         |-> MapSeq(form_field,
                                    SelectSeq(fields, LAMBDA t : ~is_submit_input(t))),
              submit_buttons |-> MapSeq(form_field, SelectSeq(fields, is_submit_input))
                                 \o MapSeq(button_info, find_all(tag.children, "button")),
              suspicious     |-> FALSE ]
        by_action ==
            IF Contains(Lower(action), "javascript:")
            THEN [ suspicious |-> TRUE,
                   xss_vector |-> "JavaScript in action: " \o Lower(action) ] @@ base
            ELSE base
    IN  event_attr_loop(by_action, tag.attrs)

\* HTMLParser._analyze_forms
analyze_forms(soup) == MapSeq(form_info, find_all(soup, "form"))

\* the order in which parse fills the bundle: lines 78-93
sub_analyses ==
    << "inputs", "forms", "event_handlers", "inline_scripts",
       "suspicious_patterns", "links" >>

\* one assignment results[step] = ... of lines 78-93
parse_step(results, html, step) ==
    CASE step = "inputs" ->
            [results EXCEPT !.inputs = analyze_inputs(html.soup)]
      [] step = "forms" ->
            [results EXCEPT !.forms = analyze_forms(html.soup)]
      [] step = "event_handlers" ->
            [results EXCEPT !.event_handlers = analyze_event_handlers(html.soup)]
      [] step = "inline_scripts" ->
            [results EXCEPT !.inline_scripts = analyze_inline_scripts(html.soup)]
      [] step = "suspicious_patterns" ->
            [results EXCEPT !.suspicious_patterns = find_suspicious_patterns(html.raw)]
      [] step = "links" ->
            [results EXCEPT !.links = analyze_links(html.soup)]

\* the except handler forgetting the bundle built so far
parse_except_reset(results, url) ==
    [ inputs |-> << >>, forms |-> << >>, event_handlers |-> << >>,
      inline_scripts |-> << >>, suspicious_patterns |-> << >>, links |-> << >>,
      base_url |-> url ]

\* lines 102-104: the except handler returns the bundle as it stands
parse_except(results, url) == results

\* the body of the try block from the sub-analysis Head(steps) on
RECURSIVE parse_steps(_, _, _, _)
parse_steps(results, html, url, steps) ==
    IF steps = << >> THEN results
    ELSE IF html.fault = Head(steps) THEN parse_except(results, url)
    ELSE parse_steps(parse_step(results, html, Head(steps)), html, url, Tail(steps))

\* HTMLParser.parse
parse(html, url) ==
    LET results ==
            [ inputs |-> << >>, forms |-> << >>, event_handlers |-> << >>,
              inline_scripts |-> << >>, suspicious_patterns |-> << >>,
              links |-> << >>, base_url |-> url ]
    IN  IF html.fault = "soup" THEN parse_except(results, url)
        ELSE parse_steps(results, html, url, sub_analyses)

-----------------------------------------------------------------------------
(* VisualAnalyzer (modules/visual_analyzer.py).                            *)
(*                                                                         *)
(* A screenshot is a record                                                *)
(*   given     the path is a non-empty string                              *)
(*   exists    os.path.exists(path)                                        *)
(*   image     "ok" | "undecodable" (cv2.imread returns None) |            *)
(*             "raises" (an OpenCV call raises)                            *)
(*   contours  the bounding boxes and interior deviations of the external  *)
(*             contours OpenCV finds: records [x, y, w, h, std_dev]        *)

None == [is_none |-> TRUE]

\* the acceptance test of one bounding box: lines 64-71
accept_box(c) ==
    /\ c.h > 0
    /\ 5 * c.h < 2 * c.w        \* 2.5 < w / h
    /\ c.w < 10 * c.h           \* w / h < 10.0
    /\ c.w > 100
    /\ 20 < c.h /\ c.h < 60
    /\ c.std_dev < 40

RECURSIVE detect_loop(_, _)
detect_loop(contours, i) ==
    IF contours = << >> THEN << >>
    ELSE LET c == Head(contours)
         IN  (IF accept_box(c)
              THEN << [ id |-> "input_" \o ToString(i),
                        x |-> c.x, y |-> c.y, width |-> c.w, height |-> c.h,
                        type |-> IF c.w > 5 * c.h THEN "text_input"
                                 ELSE "input_field" ] >>
              ELSE << >>)
             \o detect_loop(Tail(contours), i + 1)

detect_input_fields(image) == detect_loop(image.contours, 0)

\* VisualAnalyzer.analyze
VisualAnalyzer_analyze(screenshot) ==
    IF ~screenshot.exists THEN None
    ELSE IF screenshot.image # "ok" THEN None
    ELSE [ is_none      |-> FALSE,
           input_fields |-> detect_input_fields(screenshot) ]

-----------------------------------------------------------------------------
(* XSSDetector (modules/xss_detector.py): the four correlation passes.     *)
(* A pass that lets an exception escape returns [raised |-> TRUE].         *)

\* every visual field matched against all structural inputs
find_matching_all(visual_element, html_elements) == html_elements

\* XSSDetector._find_matching_html_elements
find_matching_html_elements(visual_element, html_elements) ==
    IF visual_element.type = "text_input"
    THEN SelectSeq(html_elements,
            LAMBDA e : \/ /\ e.tag = "input"
                          /\ Get(e, "type", "text") \in
                                {"text", "password", "email", "search"}
                       \/ e.tag = "textarea")
    ELSE html_elements

\* lines 186-197 for one user_input_handling entry
handling_flags(input_handling, input_id, input_name) ==
    LET context == Get(input_handling, "context", "")
    IN  IF input_id # "" /\ Contains(context, input_id)
        THEN Get(input_handling, "dangerous_usage", FALSE)
        ELSE IF input_name # "" /\ Contains(context, input_name)
        THEN Get(input_handling, "dangerous_usage", FALSE)
        ELSE FALSE

\* dangerous_usage, were it read off the verdicts' dangerous functions
dangerous_usage_by_function(html_input, script_analysis_) ==
    \E k \in DOMAIN script_analysis_.script_analysis :
        Get(script_analysis_.script_analysis[k], "dangerous_functions", << >>) # << >>

\* lines 181-197: dangerous_usage of one structural input
dangerous_usage(html_input, script_analysis_) ==
    \E k \in DOMAIN script_analysis_.script_analysis :
        LET script_result == script_analysis_.script_analysis[k]
        IN  /\ "user_input_handling" \in DOMAIN script_result
            /\ \E j \in DOMAIN script_result.user_input_handling :
                  handling_flags(script_result.user_input_handling[j],
                                 Get(html_input, "id", ""),
                                 Get(html_input, "name", ""))

\* lines 154-167: the record of the branch without visual findings
input_record(url, input_elem) ==
    [ type           |-> "input_xss",
      subtype        |-> "suspicious_attribute",
      url            |-> url,
      element_type   |-> input_elem.tag,
      element_id     |-> Get(input_elem, "id", ""),
      element_name   |-> Get(input_elem, "name", ""),
      vulnerability  |-> Get(input_elem, "xss_vector", "Atributo suspeito"),
      severity       |-> "Médio",
      evidence       |-> input_elem,
      description    |-> "Campo de entrada com potencial vulnerabilidade XSS: "
                         \o Get(input_elem, "xss_vector", "Atributo suspeito"),
      recommendation |-> "Implementar validação de entrada e sanitização dos dados do usuário" ]

\* the description reduced to the input's vector
visual_description_vector_only(html_input) == Get(html_input, "xss_vector", "")

\* lines 222-223: the description of a (visual field, structural input) record
visual_description(html_input) ==
    "Campo de entrada com potencial vulnerabilidade XSS. "
    \o (IF Get(html_input, "suspicious", FALSE)
        THEN "Encontrado: " \o Get(html_input, "xss_vector", "")
        ELSE "Entrada usada em contexto perigoso sem sanitização adequada.")

\* lines 204-225: the record of a (visual field, structural input) pair
visual_input_record(url, visual_input, html_input, dangerous) ==
    LET suspicious == Get(html_input, "suspicious", FALSE)
    IN  [ type            |-> "input_xss",
          subtype         |-> IF dangerous THEN "input_with_dangerous_usage"
                              ELSE "suspicious_input",
          url             |-> url,
          element_type    |-> html_input.tag,
          element_id      |-> Get(html_input, "id", ""),
          element_name    |-> Get(html_input, "name", ""),
          visual_position |-> [ x |-> visual_input.x, y |-> visual_input.y,
                                width  |-> visual_input.width,
                                height |-> visual_input.height ],
          vulnerability   |-> IF suspicious
                              THEN Get(html_input, "xss_vector",
                                       "Manipulação insegura de entrada")
                              ELSE "Uso perigoso em script",
          severity        |-> IF dangerous THEN "Alto" ELSE "Médio",
          html_evidence   |-> html_input,
          description     |-> visual_description(html_input),
          recommendation  |-> "Implementar validação de entrada e sanitização dos dados do usuário. Utilizar funções seguras para manipulação do DOM." ]

\* the inner loop of lines 175-225 for one visual field
RECURSIVE matched_input_loop(_, _, _, _)
matched_input_loop(url, visual_input, html_inputs, script_analysis_) ==
    IF html_inputs = << >> THEN << >>
    ELSE LET html_input == Head(html_inputs)
             dangerous  == dangerous_usage(html_input, script_analysis_)
         IN  (IF Get(html_input, "suspicious", FALSE) \/ dangerous
              THEN << visual_input_record(url, visual_input, html_input, dangerous) >>
              ELSE << >>)
             \o matched_input_loop(url, visual_input, Tail(html_inputs),
                                   script_analysis_)

RECURSIVE visual_input_loop(_, _, _, _)
visual_input_loop(url, input_fields, html_inputs, script_analysis_) ==
    IF input_fields = << >> THEN << >>
    ELSE matched_input_loop(url, Head(input_fields),
            find_matching_html_elements(Head(input_fields), html_inputs),
            script_analysis_)
         \o visual_input_loop(url, Tail(input_fields), html_inputs,
                              script_analysis_)

\* the branch without visual findings with the suspicious test dropped
no_visual_branch_all(url, inputs) ==
    MapSeq(LAMBDA e : input_record(url, e), inputs)

\* lines 151-168: the branch without visual findings
no_visual_branch(url, inputs) ==
    MapSeq(LAMBDA e : input_record(url, e),
           SelectSeq(inputs, LAMBDA e : Get(e, "suspicious", FALSE)))

\* the input pass, were a visual result without fields treated as no result
find_input_vulnerabilities_fallback(url, visual_analysis_, html_analysis_, script_analysis_) ==
    IF visual_analysis_.is_none THEN no_visual_branch(url, html_analysis_.inputs)
    ELSE IF visual_analysis_.input_fields = << >>
    THEN no_visual_branch(url, html_analysis_.inputs)
    ELSE visual_input_loop(url, visual_analysis_.input_fields,
                           html_analysis_.inputs, script_analysis_)

\* XSSDetector._find_input_vulnerabilities
find_input_vulnerabilities(url, visual_analysis_, html_analysis_, script_analysis_) ==
    IF visual_analysis_.is_none
    THEN no_visual_branch(url, html_analysis_.inputs)
    ELSE visual_input_loop(url, visual_analysis_.input_fields,
                           html_analysis_.inputs, script_analysis_)

high_risk_events ==
    { "onclick", "onkeypress", "onkeyup", "onkeydown", "onchange", "onsubmit",
      "onload", "onerror" }

\* any(danger in code.lower() for danger in [...]): line 258
dangerous_code(code) ==
    \E danger \in {"eval(", "function(", "document.write", "innerHTML", "location"} :
        Contains(Lower(code), danger)

\* lines 253-261: the first critical handler of a binding, << >> if none
RECURSIVE critical_handler(_)
critical_handler(handlers) ==
    IF handlers = << >> THEN << >>
    ELSE IF Lower(Head(handlers)[1]) \in high_risk_events
            /\ dangerous_code(Head(handlers)[2])
    THEN << Head(handlers) >>
    ELSE critical_handler(Tail(handlers))

event_record(url, handler) ==
    LET critical == critical_handler(handler.handlers)
        critical_handlers == critical # << >>
        critical_reason ==
            IF critical_handlers
            THEN "Manipulador de evento " \o critical[1][1]
                 \o " contém código perigoso: " \o Prefix(critical[1][2], 50) \o "..."
            ELSE ""
    IN  [ type           |-> "event_handler_xss",
          subtype        |-> IF critical_handlers THEN "critical_handler"
                             ELSE "suspicious_handler",
          url            |-> url,
          element_type   |-> handler.tag_name,
          element_id     |-> Get(handler, "id", ""),
          element_class  |-> Get(handler, "class", ""),
          handlers       |-> handler.handlers,
          vulnerability  |-> IF critical_handlers THEN critical_reason
                             ELSE "Manipulador de evento pode permitir XSS",
          severity       |-> IF critical_handlers THEN "Alto" ELSE "Médio",
          evidence       |-> handler,
          description    |-> IF critical_handlers THEN critical_reason
                             ELSE "Manipulador de evento que pode permitir a execução de código malicioso",
          recommendation |-> "Evitar código JavaScript inline em atributos de eventos. Implementar validação e sanitização." ]

\* XSSDetector._find_event_vulnerabilities
find_event_vulnerabilities(url, html_analysis_) ==
    MapSeq(LAMBDA h : event_record(url, h), html_analysis_.event_handlers)

\* lines 307-309 raise KeyError when one of the first three dangerous functions
\* is of the high tier and carries no 'context' key
key_issues_raises(script) ==
    LET funcs == Prefix(Get(script, "dangerous_functions", << >>), 3)
    IN  \E k \in DOMAIN funcs :
            funcs[k].risk = "high" /\ "context" \notin DOMAIN funcs[k]

\* lines 304-318, when nothing raises
key_issues(script) ==
    LET funcs    == Prefix(Get(script, "dangerous_functions", << >>), 3)
        handlers == Prefix(Get(script, "user_input_handling", << >>), 3)
        segments == Prefix(Get(script, "suspicious_code_segments", << >>), 3)
    IN  MapSeq(LAMBDA f : "Função perigosa: " \o f.match \o " em contexto: "
                          \o f.context,
               SelectSeq(funcs, LAMBDA f : f.risk = "high"))
        \o MapSeq(LAMBDA h : "Manipulação insegura de entrada: " \o h.source,
               SelectSeq(handlers,
                   LAMBDA h : Get(h, "dangerous_usage", FALSE)
                              /\ ~Get(h, "sanitization_detected", FALSE)))
        \o MapSeq(LAMBDA g : "Código suspeito: "
                          \o (IF "match" \in DOMAIN g THEN g.match ELSE g.function),
               segments)

high_script_record(url, script) ==
    LET n_funcs    == Len(Get(script, "dangerous_functions", << >>))
        n_handlers == Len(Get(script, "user_input_handling", << >>))
        segments   == Get(script, "suspicious_code_segments", << >>)
    IN  [ type           |-> "script_xss",
          subtype        |->
              IF Get(script, "obfuscation_detected", FALSE) THEN "obfuscated_script"
              ELSE IF \E k \in DOMAIN segments :
                        Get(segments[k], "type", "") = "user_input_with_dangerous_function"
              THEN "unsafe_input_handling"
              ELSE "high_risk_script",
          url            |-> url,
          script_id      |-> script.id,
          risk_score     |-> script.risk_score,
          key_issues     |-> key_issues(script),
          vulnerability  |-> "Script contém código que pode permitir ataques XSS",
          severity       |-> "Alto",
          description    |-> "Script de alto risco com pontuação "
                             \o ToString(script.risk_score) \o "/100. Contém "
                             \o ToString(n_funcs) \o " funções perigosas, "
                             \o ToString(n_handlers)
                             \o " manipulações de entrada de usuário, e "
                             \o ToString(Len(segments))
                             \o " segmentos de código suspeitos.",
          recommendation |-> "Revisar o código JavaScript, implementar sanitização adequada para entradas de usuário, e evitar funções perigosas como eval(), document.write(), e atribuições diretas a innerHTML." ]

medium_script_record(url, script) ==
    [ type           |-> "script_xss",
      subtype        |-> "medium_risk_script",
      url            |-> url,
      script_id      |-> script.id,
      risk_score     |-> script.risk_score,
      vulnerability  |-> "Script contém código potencialmente inseguro",
      severity       |-> "Médio",
      description    |-> "Script de médio risco com pontuação "
                         \o ToString(script.risk_score)
                         \o "/100 que pode conter vulnerabilidades.",
      recommendation |-> "Revisar o código JavaScript e implementar sanitização adequada para entradas de usuário." ]

inline_script_record(url, script) ==
    LET patterns == Get(script, "suspicious_patterns", << >>)
    IN  [ type           |-> "inline_script_xss",
          subtype        |-> "suspicious_inline_script",
          url            |-> url,
          script_id      |-> script.id,
          patterns       |-> Prefix(patterns, 5),
          vulnerability  |-> "Script inline contém padrões suspeitos",
          severity       |-> "Médio",
          evidence       |-> script,
          description    |-> "Script inline com " \o ToString(Len(patterns))
                             \o " padrões suspeitos que podem indicar vulnerabilidades XSS.",
          recommendation |-> "Revisar script inline. Considerar mover para arquivo externo e implementar validação adequada." ]

\* lines 299-372: the loop over the verdicts; a KeyError ends it
RECURSIVE script_verdict_loop(_, _, _)
script_verdict_loop(url, verdicts, vulns) ==
    IF verdicts = << >> THEN [raised |-> FALSE, vulns |-> vulns]
    ELSE LET script == Head(verdicts)
         IN  IF Get(script, "risk_level", "") = "high"
             THEN IF key_issues_raises(script)
                  THEN [raised |-> TRUE, vulns |-> vulns]
                  ELSE script_verdict_loop(url, Tail(verdicts),
                            Append(vulns, high_script_record(url, script)))
             ELSE IF Get(script, "risk_level", "") = "medium"
                     /\ Get(script, "risk_score", 0) >= 60
             THEN script_verdict_loop(url, Tail(verdicts),
                            Append(vulns, medium_script_record(url, script)))
             ELSE script_verdict_loop(url, Tail(verdicts), vulns)

\* XSSDetector._find_script_vulnerabilities
find_script_vulnerabilities(url, html_analysis_, script_analysis_) ==
    LET scripts == script_verdict_loop(url, script_analysis_.script_analysis, << >>)
    IN  IF scripts.raised THEN scripts
        ELSE [ raised |-> FALSE,
               vulns  |-> scripts.vulns
                          \o MapSeq(LAMBDA t : inline_script_record(url, t),
                                SelectSeq(html_analysis_.inline_scripts,
                                    LAMBDA t : Get(t, "suspicious", FALSE))) ]

link_record(url, link) ==
    [ type           |-> "url_xss",
      subtype        |-> "suspicious_link",
      url            |-> url,
      link_url       |-> link.href,
      link_text      |-> Get(link, "text", ""),
      vulnerability  |-> Get(link, "xss_vector", "Link suspeito"),
      severity       |-> "Médio",
      evidence       |-> link,
      description    |-> "Link contém potencial vetor de XSS: "
                         \o Get(link, "xss_vector", "Link suspeito"),
      recommendation |-> "Validar e sanitizar URLs antes de renderizar links." ]

pattern_record(url, pattern) ==
    [ type           |-> "pattern_xss",
      subtype        |-> "suspicious_html_pattern",
      url            |-> url,
      pattern        |-> pattern.pattern,
      match          |-> pattern.match,
      context        |-> pattern.context,
      vulnerability  |-> "Padrão de código suspeito encontrado",
      severity       |-> "Médio",
      evidence       |-> pattern,
      description    |-> "Padrão de código suspeito que pode indicar vulnerabilidade XSS: "
                         \o pattern.match,
      recommendation |-> "Revisar o código HTML e implementar sanitização adequada." ]

\* the URL pass, were the pattern loop to run before the link loop
find_url_vulnerabilities_patterns_first(url, html_analysis_) ==
    MapSeq(LAMBDA pattern : pattern_record(url, pattern),
           html_analysis_.suspicious_patterns)
    \o MapSeq(LAMBDA link : link_record(url, link),
              SelectSeq(html_analysis_.links,
                        LAMBDA link : Get(link, "suspicious", FALSE)))

\* XSSDetector._find_url_vulnerabilities
find_url_vulnerabilities(url, html_analysis_) ==
    MapSeq(LAMBDA link : link_record(url, link),
           SelectSeq(html_analysis_.links,
                     LAMBDA link : Get(link, "suspicious", FALSE)))
    \o MapSeq(LAMBDA pattern : pattern_record(url, pattern),
              html_analysis_.suspicious_patterns)

-----------------------------------------------------------------------------
(* XSSDetector.analyze, step by step.                                      *)

\* line 72: the value the inner except handler gives script_analysis
script_fallback == [ script_analysis |-> << >>, high_risk_scripts |-> 0 ]

\* the outer except handler returning the records built before the failure
except_return_partial(built) == built

\* lines 88-90: the outer except handler returns the empty list
except_return(built) == << >>

EmptyAnalysis ==
    [ inputs |-> << >>, forms |-> << >>, event_handlers |-> << >>,
      inline_scripts |-> << >>, suspicious_patterns |-> << >>, links |-> << >>,
      base_url |-> "" ]

\* the screenshot handed to the visual analyzer whether its file exists or not,
\* a missing file read as an image with no contours
visual_step_unchecked(screenshot_path) ==
    IF screenshot_path.given
    THEN [ is_none |-> FALSE, input_fields |-> detect_input_fields(screenshot_path) ]
    ELSE None

\* lines 58-62: the visual analyzer runs only on a path that names a file
visual_step(screenshot_path) ==
    IF screenshot_path.given /\ screenshot_path.exists
    THEN VisualAnalyzer_analyze(screenshot_path)
    ELSE None

\* lines 57-62
VisualStep ==
    /\ pc = "start"
    /\ visual_analysis' = visual_step(page_data.screenshot_path)
    /\ pc' = "parse"
    /\ UNCHANGED << page_data, html_analysis, script_analysis, script_error,
                    pass_out, vulnerabilities, raised, result >>
    /\ UNCHANGED << scriptVars, dedupVars, parseVars, callVars, reportVars, crawlVars >>

\* line 65
ParseStep ==
    /\ pc = "parse"
    /\ html_analysis' = parse(page_data.html, page_data.url)
    /\ pc' = "scripts"
    /\ UNCHANGED << page_data, visual_analysis, script_analysis, script_error,
                    pass_out, vulnerabilities, raised, result >>
    /\ UNCHANGED << scriptVars, dedupVars, parseVars, callVars, reportVars, crawlVars >>

\* lines 68-72
ScriptStep ==
    /\ pc = "scripts"
    /\ LET r == ScriptAnalyzer_analyze(page_data.scripts)
       IN  /\ script_analysis' = IF r.raised THEN script_fallback ELSE r.results
           /\ script_error' = r.raised
    /\ pc' = "input_pass"
    /\ UNCHANGED << page_data, visual_analysis, html_analysis,
                    pass_out, vulnerabilities, raised, result >>
    /\ UNCHANGED << scriptVars, dedupVars, parseVars, callVars, reportVars, crawlVars >>

\* lines 109-112
InputPass ==
    /\ pc = "input_pass"
    /\ LET out == find_input_vulnerabilities(page_data.url, visual_analysis,
                                             html_analysis, script_analysis)
       IN  /\ vulnerabilities' = vulnerabilities \o out
           /\ pass_out' = [pass_out EXCEPT !.input = out]
    /\ pc' = "event_pass"
    /\ UNCHANGED << page_data, visual_analysis, html_analysis, script_analysis,
                    script_error, raised, result >>
    /\ UNCHANGED << scriptVars, dedupVars, parseVars, callVars, reportVars, crawlVars >>

\* lines 115-118
EventPass ==
    /\ pc = "event_pass"
    /\ LET out == find_event_vulnerabilities(page_data.url, html_analysis)
       IN  /\ vulnerabilities' = vulnerabilities \o out
           /\ pass_out' = [pass_out EXCEPT !.event = out]
    /\ pc' = "script_pass"
    /\ UNCHANGED << page_data, visual_analysis, html_analysis, script_analysis,
                    script_error, raised, result >>
    /\ UNCHANGED << scriptVars, dedupVars, parseVars, callVars, reportVars, crawlVars >>

\* lines 121-124; a KeyError leaves through the outer except of analyze
ScriptPass ==
    /\ pc = "script_pass"
    /\ LET out == find_script_vulnerabilities(page_data.url, html_analysis,
                                              script_analysis)
       IN  IF out.raised
           THEN /\ raised' = TRUE
                /\ pc' = "except"
                /\ UNCHANGED << vulnerabilities, pass_out >>
           ELSE /\ vulnerabilities' = vulnerabilities \o out.vulns
                /\ pass_out' = [pass_out EXCEPT !.script = out.vulns]
                /\ pc' = "url_pass"
                /\ UNCHANGED raised
    /\ UNCHANGED << page_data, visual_analysis, html_analysis, script_analysis,
                    script_error, result >>
    /\ UNCHANGED << scriptVars, dedupVars, parseVars, callVars, reportVars, crawlVars >>

\* lines 127-132
UrlPass ==
    /\ pc = "url_pass"
    /\ LET out == find_url_vulnerabilities(page_data.url, html_analysis)
       IN  /\ vulnerabilities' = vulnerabilities \o out
           /\ pass_out' = [pass_out EXCEPT !.url = out]
    /\ pc' = "return"
    /\ UNCHANGED << page_data, visual_analysis, html_analysis, script_analysis,
                    script_error, raised, result >>
    /\ UNCHANGED << scriptVars, dedupVars, parseVars, callVars, reportVars, crawlVars >>

\* lines 83-86
Return ==
    /\ pc = "return"
    /\ result' = vulnerabilities
    /\ pc' = "done"
    /\ UNCHANGED << page_data, visual_analysis, html_analysis, script_analysis,
                    script_error, pass_out, vulnerabilities, raised >>
    /\ UNCHANGED << scriptVars, dedupVars, parseVars, callVars, reportVars, crawlVars >>

\* lines 88-90
Except ==
    /\ pc = "except"
    /\ result' = except_return(vulnerabilities)
    /\ pc' = "done"
    /\ UNCHANGED << page_data, visual_analysis, html_analysis, script_analysis,
                    script_error, pass_out, vulnerabilities, raised >>
    /\ UNCHANGED << scriptVars, dedupVars, parseVars, callVars, reportVars, crawlVars >>

-----------------------------------------------------------------------------
(* The pages analysed: bounded inputs.                                     *)

\* the most elements, scripts, contours and raw pattern matches, taken
\* together, on the page
MaxItems == 2

Elem(tag, attrs) ==
    [ tag |-> tag, attrs |-> attrs, options |-> << >>, in_form |-> FALSE,
      js |-> << >>, query |-> << >>, malformed |-> FALSE, children |-> << >> ]

ElementCatalogue ==
    { Elem("input", << <<"type", "text">>, <<"onload", "eval(x)">> >>),
      Elem("input", << <<"type", "text">>, <<"name", "q">> >>),
      Elem("input", << <<"type", "hidden">>, <<"data-u", "JavaScript:alert(1)">> >>),
      Elem("textarea", << <<"placeholder", "javascript:alert(1)">> >>),
      Elem("textarea", << <<"name", "msg">>, <<"onfocus", "track()">> >>),
      [ Elem("select", << <<"name", "s">> >>)
            EXCEPT !.options = << "a", "JavaScript:void(0)" >> ],
      Elem("select", << <<"id", "c">>, <<"onchange", "go()">> >>),
      Elem("div", << <<"onclick", "location='/x'">> >>),
      Elem("a", << <<"href", "javascript:alert(1)">> >>),
      [ Elem("script", << >>)
            EXCEPT !.js = << "Suspicious JS pattern (eval()): eval(" >> ] }

Script(type, content) == [ type |-> type, content |-> content ]

ScriptCatalogue ==
    { Script("external", NoneContent),
      Script("inline", EmptyContent),
      Script("inline", Text({"eval("})),
      Script("inline", Text({"eval(", "document.write(", "innerHTML="})),
      Script("inline", Text(MediumSigs \cup {"atob("})),
      Script("inline", Text({".ajax(", "fetch(", "XMLHttpRequest", ".src=", "atob("})),
      Script("inline", NonTextContent) }

ContourCatalogue ==
    { [ x |-> 10, y |-> 10, w |-> 300, h |-> 40, std_dev |-> 5 ],
      [ x |-> 10, y |-> 80, w |-> 120, h |-> 40, std_dev |-> 5 ],
      [ x |-> 10, y |-> 150, w |-> 50, h |-> 40, std_dev |-> 5 ] }

RawCatalogue ==
    { [ pattern |-> "on\\w+\\s*=\\s*([\"']).*?\\1", text |-> "onload=\"eval(x)\"",
        start |-> 19, context |-> "<input type=\"text\" <HERE>onload=\"eval(x)\">" ] }

Screenshot(given, exists, image, contours) ==
    [ given |-> given, exists |-> exists, image |-> image, contours |-> contours ]

\* no path; a path to no file; a file OpenCV cannot decode; a file on which an
\* OpenCV call raises
FailingScreenshots ==
    { Screenshot(FALSE, FALSE, "ok", << >>),
      Screenshot(TRUE, FALSE, "ok", << >>),
      Screenshot(TRUE, TRUE, "undecodable", << >>),
      Screenshot(TRUE, TRUE, "raises", << >>) }

PageUrl == "http://site/page"

IdlePage ==
    [ url |-> "", html |-> [soup |-> << >>, raw |-> << >>, fault |-> "none"],
      scripts |-> << >>,
      screenshot_path |-> Screenshot(FALSE, FALSE, "ok", << >>) ]

NoPassOut == [ input |-> << >>, event |-> << >>, script |-> << >>, url |-> << >> ]

IdleScript ==
    /\ sc_content = NoneContent
    /\ sc_verdict = NoVerdict
    /\ sc_prev = NoVerdict
    /\ sc_pc = "idle"

IdleDedup ==
    /\ rg_vulns = << >>
    /\ rg_unique = << >>
    /\ rg_again = << >>
    /\ rg_pc = "idle"

PageLocals ==
    /\ visual_analysis = None
    /\ html_analysis = EmptyAnalysis
    /\ script_analysis = script_fallback
    /\ script_error = FALSE
    /\ pass_out = NoPassOut
    /\ vulnerabilities = << >>
    /\ raised = FALSE
    /\ result = << >>

IdlePageVars ==
    /\ page_data = IdlePage
    /\ pc = "idle"
    /\ PageLocals

IdleParse ==
    /\ hp_html = [soup |-> << >>, raw |-> << >>, fault |-> "none"]
    /\ hp_results = EmptyAnalysis
    /\ hp_pc = "idle"

IdleCalls ==
    /\ pending = << >>
    /\ analysed = << >>
    /\ run_pages = << >>
    /\ run_results = << >>

IdleReport ==
    /\ gr_vulns = << >>
    /\ gr_file = None
    /\ gr_return = None
    /\ gr_pc = "idle"

IdleCrawl ==
    /\ cr_args = [start_url |-> "", depth |-> 0]
    /\ site = << >>
    /\ visited_urls = {}
    /\ pages_data = << >>
    /\ stack = << >>
    /\ fetched = << >>
    /\ followed = << >>
    /\ cr_pc = "idle"

\* analyze is called with one page record
Init ==
    /\ IdleScript
    /\ IdleDedup
    /\ IdleParse
    /\ IdleCalls
    /\ IdleReport
    /\ IdleCrawl
    /\ PageLocals
    /\ pc = "start"
    /\ \E ne \in 0..MaxItems, ns \in 0..MaxItems, nc \in 0..MaxItems, nr \in 0..MaxItems :
          /\ ne + ns + nc + nr <= MaxItems
          /\ \E soup \in [1..ne -> ElementCatalogue],
                scripts \in [1..ns -> ScriptCatalogue],
                contours \in [1..nc -> ContourCatalogue],
                raw \in [1..nr -> RawCatalogue] :
                \E shot \in IF nc > 0
                            THEN { Screenshot(TRUE, TRUE, "ok", contours) }
                            ELSE FailingScreenshots
                                 \cup { Screenshot(TRUE, TRUE, "ok", << >>) } :
                    page_data = [ url |-> PageUrl,
                                  html |-> [soup |-> soup, raw |-> raw,
                                            fault |-> "none"],
                                  scripts |-> scripts,
                                  screenshot_path |-> shot ]

Next ==
    \/ VisualStep
    \/ ParseStep
    \/ ScriptStep
    \/ InputPass
    \/ EventPass
    \/ ScriptPass
    \/ UrlPass
    \/ Return
    \/ Except

Spec == Init /\ [][Next]_vars

-----------------------------------------------------------------------------
(* SpecScript: one content scored, grown by one high-risk signature, scored *)
(* again.                                                                  *)

InitScript ==
    /\ IdleDedup
    /\ IdlePageVars
    /\ IdleParse
    /\ IdleCalls
    /\ IdleReport
    /\ IdleCrawl
    /\ sc_content \in { Text(m) : m \in SUBSET AllSigs }
    /\ sc_verdict = NoVerdict
    /\ sc_prev = NoVerdict
    /\ sc_pc = "new"

ScoreScript ==
    /\ sc_pc \in {"new", "grown"}
    /\ sc_verdict' = analyze_script_simplified(sc_content, 0)
    /\ sc_pc' = IF sc_pc = "new" THEN "scored" ELSE "rescored"
    /\ UNCHANGED << sc_content, sc_prev >>
    /\ UNCHANGED << dedupVars, pageVars, parseVars, callVars, reportVars, crawlVars >>

\* the script's text gains a match of one more, distinct, high-risk signature
AddHighSignature ==
    /\ sc_pc = "scored"
    /\ \E p \in HighSigs \ sc_content.matches :
          sc_content' = Text(sc_content.matches \cup {p})
    /\ sc_prev' = sc_verdict
    /\ sc_pc' = "grown"
    /\ UNCHANGED sc_verdict
    /\ UNCHANGED << dedupVars, pageVars, parseVars, callVars, reportVars, crawlVars >>

NextScript == ScoreScript \/ AddHighSignature

SpecScript == InitScript /\ [][NextScript]_vars

-----------------------------------------------------------------------------
(* SpecDedup: a list deduplicated, and the result deduplicated again.      *)

\* the longest vulnerability list handed to the report generator
MaxVulns == 3

VulnCatalogue ==
    [ url : {"http://site/a", "http://site/b"},
      type : {"input_xss", "script_xss"},
      description : {"d1", "d2"},
      severity : {"Alto", "Médio"} ]

InitDedup ==
    /\ IdleScript
    /\ IdlePageVars
    /\ IdleParse
    /\ IdleCalls
    /\ IdleReport
    /\ IdleCrawl
    /\ \E n \in 0..MaxVulns : rg_vulns \in [1..n -> VulnCatalogue]
    /\ rg_unique = << >>
    /\ rg_again = << >>
    /\ rg_pc = "start"

Deduplicate ==
    /\ rg_pc = "start"
    /\ rg_unique' = deduplicate_vulnerabilities(rg_vulns)
    /\ rg_pc' = "once"
    /\ UNCHANGED << rg_vulns, rg_again >>
    /\ UNCHANGED << scriptVars, pageVars, parseVars, callVars, reportVars, crawlVars >>

DeduplicateAgain ==
    /\ rg_pc = "once"
    /\ rg_again' = deduplicate_vulnerabilities(rg_unique)
    /\ rg_pc' = "twice"
    /\ UNCHANGED << rg_vulns, rg_unique >>
    /\ UNCHANGED << scriptVars, pageVars, parseVars, callVars, reportVars, crawlVars >>

NextDedup == Deduplicate \/ DeduplicateAgain

SpecDedup == InitDedup /\ [][NextDedup]_vars

-----------------------------------------------------------------------------
(* SpecParse: HTMLParser.parse applied to one markup.                      *)

\* the most fragments of markup on the page handed to parse
MaxFragments == 2

\* a form and its descendant fields, as elements in document order
Form(attrs, children) ==
    << [ Elem("form", attrs) EXCEPT !.children =
            [ k \in DOMAIN children |-> [children[k] EXCEPT !.in_form = TRUE] ] ] >>
    \o [ k \in DOMAIN children |-> [children[k] EXCEPT !.in_form = TRUE] ]

\* an anchor with the query string urllib decodes from its href
Anchor(attrs, query, malformed) ==
    [ Elem("a", attrs) EXCEPT !.query = query, !.malformed = malformed ]

\* fragments of markup: each is the sequence of the elements it parses to
FragmentCatalogue ==
    { << Elem("input", << <<"type", "text">>, <<"onclick", "a()">>,
                          <<"onfocus", "b()">> >>) >>,
      << Elem("input", << <<"name", "u">>, <<"onclick", "javascript:go()">> >>) >>,
      << Elem("input", << <<"type", "text">>, <<"name", "q">> >>) >>,
      << Elem("textarea", << <<"onfocus", "a()">>, <<"rows", "3">>,
                             <<"onblur", "b()">> >>) >>,
      << [ Elem("select", << <<"name", "s">>, <<"onchange", "go()">> >>)
            EXCEPT !.options = << "javascript:void(0)", "b" >> ] >>,
      << Elem("div", << <<"class", "box">>, <<"onclick", "x.innerHTML=y">>,
                        <<"onmouseover", "hint()">> >>) >>,
      << Elem("p", << <<"class", "note">> >>) >>,
      << [ Elem("script", << >>)
            EXCEPT !.js = << "Suspicious JS pattern (eval()): eval(" >> ] >>,
      << Anchor(<< <<"href", "javascript:alert(1)">> >>, << >>, FALSE) >>,
      << Anchor(<< <<"href", "JavaScript:alert(1)">>, <<"onclick", "track()">> >>,
                << >>, FALSE) >>,
      << Anchor(<< <<"href", "/search?q=<script>alert(1)</script>">> >>,
                << <<"q", "<script>alert(1)</script>">> >>, FALSE) >>,
      << Anchor(<< <<"href", "http://site/s?q=a&q=<script>x</script>">> >>,
                << <<"q", "a">>, <<"q", "<script>x</script>">> >>, FALSE) >>,
      << Anchor(<< <<"href", "http://site/s?next=JavaScript:alert(1)">> >>,
                << <<"next", "JavaScript:alert(1)">> >>, FALSE) >>,
      << Anchor(<< <<"href", "http://site/s?page=2">> >>,
                << <<"page", "2">> >>, FALSE) >>,
      << Anchor(<< <<"href", "http://[site/s?x=onerror=1">> >>, << >>, TRUE) >>,
      << Anchor(<< <<"href", "/about">> >>, << >>, FALSE) >>,
      Form(<< <<"action", "JavaScript:send()">>, <<"method", "post">>,
              <<"onsubmit", "return check()">> >>,
           << Elem("input", << <<"type", "text">>, <<"name", "user">> >>),
              Elem("input", << <<"type", "submit">>, <<"value", "Go">> >>),
              Elem("button", << <<"name", "b">> >>) >>) }

\* the steps of parse during which an exception can be raised
ParseFaults == {"none", "soup"} \cup Range(sub_analyses)

RECURSIVE Concat(_)
Concat(fragments) ==
    IF fragments = << >> THEN << >>
    ELSE Head(fragments) \o Concat(Tail(fragments))

\* a script body of n characters, n <= 150
Body50 == "xxxxxxxxxxxxxxxxxxxxxxxxxxxxxxxxxxxxxxxxxxxxxxxxxx"

Body(n) == SubSeq(Body50 \o Body50 \o Body50, 1, n)

\* an inline script element with a body of n characters, as the pattern
\* <script[^>]*>.*?</script> matches it: n + 17 characters
ScriptMatch(n) ==
    [ pattern |-> "<script[^>]*>.*?</script>",
      text |-> "<script>" \o Body(n) \o "</script>",
      start |-> 0,
      context |-> "<HERE><script>xxxxxxxxxxxxxxxxxxxxxx" ]

\* raw matches of 99, 100, 101 and 150 characters
LongMatches == { ScriptMatch(82), ScriptMatch(83), ScriptMatch(84), ScriptMatch(133) }

InitParse ==
    /\ IdleScript
    /\ IdleDedup
    /\ IdlePageVars
    /\ IdleCalls
    /\ IdleReport
    /\ IdleCrawl
    /\ \E n \in 0..MaxFragments :
          \E fragments \in [1..n -> FragmentCatalogue],
             raw \in {<< >>} \cup { << m >> : m \in RawCatalogue \cup LongMatches },
             fault \in ParseFaults :
                hp_html = [ soup |-> Concat(fragments), raw |-> raw, fault |-> fault ]
    /\ hp_results = EmptyAnalysis
    /\ hp_pc = "start"

\* html_parser.parse(html, url): line 65 of xss_detector.py
Parse ==
    /\ hp_pc = "start"
    /\ hp_results' = parse(hp_html, PageUrl)
    /\ hp_pc' = "returned"
    /\ UNCHANGED hp_html
    /\ UNCHANGED << scriptVars, dedupVars, pageVars, callVars, reportVars, crawlVars >>

NextParse == Parse

SpecParse == InitParse /\ [][NextParse]_vars

-----------------------------------------------------------------------------
(* SpecCorrelate: the four correlation passes of _correlate_analyses on    *)
(* given visual, structural and script analyses.  The script analysis is   *)
(* any list of verdicts of the shape the passes read, with or without the  *)
(* optional keys user_input_handling and suspicious_code_segments.         *)

\* the most elements, verdicts, contours and raw pattern matches, taken
\* together, behind the analyses handed to the passes
MaxCorrelated == 3

CorrelateElements ==
    { Elem("input", << <<"type", "text">>, <<"id", "user">>, <<"name", "login">> >>),
      Elem("input", << <<"type", "hidden">>, <<"id", "tok">>,
                       <<"onclick", "location='/x'">> >>),
      Elem("textarea", << <<"name", "msg">>, <<"onfocus", "track()">> >>),
      Elem("select", << <<"id", "sel">> >>),
      Elem("div", << <<"onclick", "x.innerHTML=y">> >>),
      Elem("div", << <<"onmouseover", "eval(x)">> >>),
      Elem("a", << <<"href", "javascript:alert(1)">> >>),
      [ Elem("script", << >>)
            EXCEPT !.js = << "Suspicious JS pattern (eval()): eval(" >> ] }

\* a user_input_handling entry of a verdict
Handling(context, flagged) ==
    [ source |-> "getElementById", context |-> context,
      dangerous_usage |-> flagged, sanitization_detected |-> FALSE ]

\* the verdicts a script analysis can hold at index script_id: those
\* _analyze_script_simplified builds, and verdicts with the optional keys
VerdictCatalogue(script_id) ==
    { analyze_script_simplified(Text({"eval("}), script_id),
      analyze_script_simplified(
          Text({".ajax(", "fetch(", "XMLHttpRequest", ".src=", "atob("}), script_id),
      analyze_script_simplified(Text(MediumSigs \cup {"atob("}), script_id),
      analyze_script_simplified(
          Text({"eval(", "document.write(", "innerHTML="}), script_id),
      [ user_input_handling |->
            << Handling("eval(document.getElementById('user').value)", TRUE) >> ]
        @@ analyze_script_simplified(Text({"eval("}), script_id),
      [ user_input_handling |->
            << Handling("log(document.getElementById('user').value)", FALSE) >> ]
        @@ analyze_script_simplified(Text({"eval("}), script_id),
      [ user_input_handling |->
            << Handling("el.innerHTML = document.forms[0].msg.value", TRUE) >> ]
        @@ analyze_script_simplified(Text({"innerHTML="}), script_id),
      [ id |-> script_name(script_id), risk_level |-> "high", risk_score |-> 95,
        dangerous_functions |->
            << [ pattern |-> "eval(", match |-> "eval(", risk |-> "high",
                 context |-> "eval(document.getElementById('tok').value)" ] >>,
        obfuscation_detected |-> FALSE,
        user_input_handling |->
            << Handling("eval(document.getElementById('tok').value)", TRUE) >>,
        suspicious_code_segments |->
            << [ type |-> "user_input_with_dangerous_function",
                 match |-> "eval(document.getElementById('tok').value)" ] >> ] }

InitCorrelate ==
    /\ IdleScript
    /\ IdleDedup
    /\ IdleParse
    /\ IdleCalls
    /\ IdleReport
    /\ IdleCrawl
    /\ pc = "input_pass"
    /\ script_error = FALSE
    /\ pass_out = NoPassOut
    /\ vulnerabilities = << >>
    /\ raised = FALSE
    /\ result = << >>
    /\ \E ne \in 0..MaxCorrelated, ns \in 0..MaxCorrelated,
          nc \in 0..MaxCorrelated, nr \in 0..MaxCorrelated :
          /\ ne + ns + nc + nr <= MaxCorrelated
          /\ \E soup \in [1..ne -> CorrelateElements],
                contours \in [1..nc -> ContourCatalogue],
                raw \in [1..nr -> RawCatalogue] :
                /\ page_data = [ url |-> PageUrl,
                                 html |-> [soup |-> soup, raw |-> raw,
                                           fault |-> "none"],
                                 scripts |-> << >>,
                                 screenshot_path |->
                                    Screenshot(TRUE, TRUE, "ok", contours) ]
                /\ html_analysis = parse(page_data.html, PageUrl)
                /\ visual_analysis \in
                      { VisualAnalyzer_analyze(page_data.screenshot_path) }
                      \cup (IF nc = 0 THEN { None } ELSE { })
          /\ \E kinds \in [1..ns -> VerdictCatalogue(0)] :
                LET verdicts ==
                        [ k \in 1..ns |->
                            [kinds[k] EXCEPT !.id = script_name(k - 1)] ]
                IN  script_analysis =
                      [ scripts_analyzed    |-> ns,
                        high_risk_scripts   |->
                            Len(SelectSeq(verdicts, LAMBDA v : v.risk_level = "high")),
                        medium_risk_scripts |->
                            Len(SelectSeq(verdicts, LAMBDA v : v.risk_level = "medium")),
                        script_analysis     |-> verdicts ]

\* _correlate_analyses (lines 106-132) and the return of analyze
NextCorrelate ==
    \/ InputPass
    \/ EventPass
    \/ ScriptPass
    \/ UrlPass
    \/ Return
    \/ Except

SpecCorrelate == InitCorrelate /\ [][NextCorrelate]_vars

-----------------------------------------------------------------------------
(* SpecPages: successive analyze calls on one XSSDetector instance, as the *)
(* loop of index.py makes them.  The instance holds its three analyzers    *)
(* and its logger and nothing else; what a call computes lives in locals.  *)
(* The model keeps the locals of the previous call in place until the new  *)
(* call assigns them.                                                      *)

\* the most pages handed to one detector
MaxCalls == 3

Page(url, soup, raw, scripts, shot) ==
    [ url |-> url,
      html |-> [soup |-> soup, raw |-> raw, fault |-> "none"],
      scripts |-> scripts,
      screenshot_path |-> shot ]

PageCatalogue ==
    { Page("http://site/a",
           << Elem("input", << <<"type", "text">>, <<"onload", "eval(x)">> >>) >>,
           << >>, << >>, Screenshot(FALSE, FALSE, "ok", << >>)),
      Page("http://site/a", << >>, << >>,
           << Script("inline", Text({"eval(", "document.write(", "innerHTML="})) >>,
           Screenshot(TRUE, FALSE, "ok", << >>)),
      Page("http://site/b",
           << Elem("input", << <<"type", "text">>, <<"name", "q">> >>),
              Elem("textarea", << <<"name", "msg">>, <<"onfocus", "track()">> >>) >>,
           << >>, << >>,
           Screenshot(TRUE, TRUE, "ok",
               << [ x |-> 10, y |-> 10, w |-> 300, h |-> 40, std_dev |-> 5 ] >>)),
      Page("http://site/b",
           << Elem("a", << <<"href", "javascript:alert(1)">> >>) >>,
           << >>,
           << Script("inline",
                  Text({".ajax(", "fetch(", "XMLHttpRequest", ".src=", "atob("})) >>,
           Screenshot(TRUE, TRUE, "undecodable", << >>)),
      Page("http://site/c", << >>, << >>, << >>,
           Screenshot(FALSE, FALSE, "ok", << >>)),
      Page("http://site/d",
           << Elem("input", << <<"type", "text">>, <<"id", "user">>,
                               <<"onfocus", "track()">> >>) >>,
           << >>,
           << Script("inline",
                  Text({".ajax(", "fetch(", "XMLHttpRequest", ".src=", "atob("})) >>,
           Screenshot(TRUE, TRUE, "ok",
               << [ x |-> 10, y |-> 10, w |-> 300, h |-> 40, std_dev |-> 5 ] >>)),
      Page("http://site/c",
           << Elem("div", << <<"onclick", "location='/x'">> >>) >>,
           << >>,
           << Script("inline", Text(MediumSigs \cup {"atob("})),
              Script("inline", NonTextContent) >>,
           Screenshot(FALSE, FALSE, "ok", << >>)) }

InitPages ==
    /\ IdleScript
    /\ IdleDedup
    /\ IdleParse
    /\ IdlePageVars
    /\ IdleReport
    /\ IdleCrawl
    /\ \E n \in 1..MaxCalls : pending \in [1..n -> PageCatalogue]
    /\ run_pages = pending
    /\ analysed = << >>
    /\ run_results = << >>

\* the list the call starts from, were the previous call's list kept
call_vulnerabilities_kept(previous) == previous

\* line 55: vulnerabilities = []
call_vulnerabilities(previous) == << >>

\* index.py line 76: detector.analyze(page_data) on the next page of the loop;
\* lines 48-55 of analyze.
Call ==
    /\ pc = "idle"
    /\ pending # << >>
    /\ page_data' = Head(pending)
    /\ pending' = Tail(pending)
    /\ vulnerabilities' = call_vulnerabilities(vulnerabilities)
    /\ script_error' = FALSE
    /\ raised' = FALSE
    /\ pass_out' = NoPassOut
    /\ pc' = "start"
    /\ UNCHANGED << visual_analysis, html_analysis, script_analysis, result >>
    /\ UNCHANGED << analysed, run_pages, run_results >>
    /\ UNCHANGED << scriptVars, dedupVars, parseVars, reportVars, crawlVars >>

\* the accumulated list, were each page's list to replace it
extend_results_last(results, page_vulnerabilities) == page_vulnerabilities

\* index.py lines 77-78: if vulnerabilities: results.extend(vulnerabilities)
extend_results(results, page_vulnerabilities) ==
    IF page_vulnerabilities # << >> THEN results \o page_vulnerabilities
    ELSE results

\* index.py lines 76-78: the call has returned, its list is added to results
\* and the loop moves on.  The call is filed with what it returned.
Extend ==
    /\ pc = "done"
    /\ run_pages # << >>
    /\ run_results' = extend_results(run_results, result)
    /\ analysed' = Append(analysed, [page |-> page_data, result |-> result,
                                     raised |-> raised])
    /\ pc' = "idle"
    /\ UNCHANGED << page_data, visual_analysis, html_analysis, script_analysis,
                    script_error, pass_out, vulnerabilities, raised, result >>
    /\ UNCHANGED << pending, run_pages >>
    /\ UNCHANGED << scriptVars, dedupVars, parseVars, reportVars, crawlVars >>

\* XSSDetector.analyze as a function of the page record: what a detector
\* that has analysed nothing before returns
XSSDetector_analyze(page) ==
    LET visual  == visual_step(page.screenshot_path)
        html    == parse(page.html, page.url)
        r       == ScriptAnalyzer_analyze(page.scripts)
        scripts == IF r.raised THEN script_fallback ELSE r.results
        inputs  == find_input_vulnerabilities(page.url, visual, html, scripts)
        events  == find_event_vulnerabilities(page.url, html)
        script_ == find_script_vulnerabilities(page.url, html, scripts)
        urls    == find_url_vulnerabilities(page.url, html)
    IN  IF script_.raised THEN except_return(inputs \o events)
        ELSE inputs \o events \o script_.vulns \o urls

NextPages ==
    \/ Call
    \/ Extend
    \/ VisualStep
    \/ ParseStep
    \/ ScriptStep
    \/ InputPass
    \/ EventPass
    \/ ScriptPass
    \/ UrlPass
    \/ Return
    \/ Except

SpecPages == InitPages /\ [][NextPages]_vars

\* The loop of index.py and the calls it makes are sequential code on one
\* thread: while the loop has a page to hand over or a call is under way,
\* control moves on.  Every such state has a step of NextPages, and each
\* step of NextPages moves pc.
Positions == {"idle", "start", "parse", "scripts", "input_pass", "event_pass",
              "script_pass", "url_pass", "return", "except", "done"}

Running == pc # "idle" \/ pending # << >>

Advance == Running /\ pc' \in Positions

SpecRun == SpecPages /\ WF_pc(Advance)

-----------------------------------------------------------------------------
(* SpecReport: XSSDetector.generate_report on one list of records, with an *)
(* output path that can be written.                                        *)

OutputPath == "reports/report.json"

\* datetime.now().strftime(...): the moment of the call
Timestamp == "now"

\* The records handed over: records as the passes build them, the fields the
\* report drops included, with a subtype and without one.
ReportCatalogue ==
    [ type : {"input_xss", "script_xss"},
      subtype : {"suspicious_input"},
      url : {"http://site/a", "http://site/b"},
      severity : {"Alto", "Médio"},
      description : {"d1"},
      recommendation : {"r1"},
      html_evidence : {"<input>"} ]
    \cup { [ type |-> "pattern_xss", url |-> "http://site/a",
             severity |-> "Médio", description |-> "d2",
             recommendation |-> "r2", evidence |-> "<script>" ] }

\* lines 506-517: one counter per value of vuln[key], in a dict
RECURSIVE report_counts(_, _, _)
report_counts(vulns, key, counts) ==
    IF vulns = << >> THEN counts
    ELSE LET value == Head(vulns)[key]
             seen == IF value \in DOMAIN counts THEN counts
                     ELSE counts @@ (value :> 0)
         IN  report_counts(Tail(vulns), key,
                           [seen EXCEPT ![value] = seen[value] + 1])

\* lines 520-527: the simplified record
report_entry(vuln) ==
    [ type |-> vuln.type,
      subtype |-> Get(vuln, "subtype", ""),
      url |-> vuln.url,
      severity |-> vuln.severity,
      description |-> vuln.description,
      recommendation |-> vuln.recommendation ]

\* the simplified list, were a record already listed not listed again
RECURSIVE report_entries_unique(_)
report_entries_unique(vulns) ==
    IF vulns = << >> THEN << >>
    ELSE LET before == report_entries_unique(SubSeq(vulns, 1, Len(vulns) - 1))
             entry  == report_entry(vulns[Len(vulns)])
         IN  IF \E i \in DOMAIN before : before[i] = entry THEN before
             ELSE Append(before, entry)

\* lines 506-527: report_data['vulnerabilities'] after the loop
RECURSIVE report_entries(_)
report_entries(vulns) ==
    IF vulns = << >> THEN << >>
    ELSE << report_entry(Head(vulns)) >> \o report_entries(Tail(vulns))

\* lines 497-527
report_data(vulns) ==
    [ timestamp |-> Timestamp,
      total_vulnerabilities |-> Len(vulns),
      vulnerabilities_by_type |-> report_counts(vulns, "type", << >>),
      vulnerabilities_by_severity |-> report_counts(vulns, "severity", << >>),
      vulnerabilities |-> report_entries(vulns) ]

InitReport ==
    /\ IdleScript
    /\ IdleDedup
    /\ IdlePageVars
    /\ IdleParse
    /\ IdleCalls
    /\ IdleCrawl
    /\ \E n \in 0..MaxVulns : gr_vulns \in [1..n -> ReportCatalogue]
    /\ gr_file = None
    /\ gr_return = None
    /\ gr_pc = "start"

\* generate_report(vulnerabilities, output_path), lines 478-535
GenerateReport ==
    /\ gr_pc = "start"
    /\ IF gr_vulns = << >>
       THEN /\ gr_return' = None
            /\ gr_file' = gr_file
       ELSE /\ gr_file' = report_data(gr_vulns)
            /\ gr_return' = OutputPath
    /\ gr_pc' = "returned"
    /\ UNCHANGED gr_vulns
    /\ UNCHANGED << scriptVars, dedupVars, pageVars, parseVars, callVars, crawlVars >>

NextReport == GenerateReport

SpecReport == InitReport /\ [][NextReport]_vars

-----------------------------------------------------------------------------
(* SpecCrawl: WebCrawler.crawl (modules/web_crawler.py) on one site, once  *)
(* the driver has been started.  A URL is its network location and its     *)
(* path; the recursion of _crawl_recursive is a stack of calls.  A page    *)
(* record is kept as its url and its links, the fields the crawl reads.    *)

\* the largest depth crawl is called with
MaxDepth == 3

\* line 225
max_links_per_page == 10

Url(netloc, path) == [ netloc |-> netloc, path |-> path ]

\* urlparse(url).netloc
netloc_of(url) == url.netloc

UrlA == Url("site", "/")
UrlB == Url("site", "/b")
UrlC == Url("site", "/c")
UrlX == Url("other", "/")

SiteUrls == { UrlA, UrlB, UrlC }

\* page_data['links'] of a page, as _extract_links lists the anchors: in
\* document order, a link once per anchor; the last list has eleven anchors
\* to /b before one to /c
LinkLists ==
    { << >>,
      << UrlB >>,
      << UrlB, UrlC >>,
      << UrlA, UrlX, UrlC >>,
      << UrlC, UrlC, UrlA >>,
      [ i \in 1..11 |-> UrlB ] \o << UrlC >> }

\* the calls of _crawl_recursive: "call" before the body has run, "loop" while
\* it iterates over same_domain_links; hops counts the links followed from
\* start_url down to this call
Frame(url, depth, hops, phase, links) ==
    [ url |-> url, depth |-> depth, hops |-> hops, phase |-> phase, links |-> links ]

Top == stack[Len(stack)]

Pop == SubSeq(stack, 1, Len(stack) - 1)

\* the guard of line 197 with the visited test dropped
returns_at_once_depth_only(url, depth, visited) == depth <= 0

\* line 197: if depth <= 0 or url in self.visited_urls: return
returns_at_once(url, depth, visited) == depth <= 0 \/ url \in visited

\* the depth handed down, were it not decremented
next_depth_same(depth) == depth

\* line 233: the depth handed to the call on a link
next_depth(depth) == depth - 1

\* lines 216-221: the links on the page's network location not yet visited
same_domain_links(url, links, visited) ==
    SelectSeq(links, LAMBDA link : netloc_of(link) = netloc_of(url)
                                   /\ link \notin visited)

\* lines 225-229
limit_links(links) == SubSeq(links, 1, Min(max_links_per_page, Len(links)))

InitCrawl ==
    /\ IdleScript
    /\ IdleDedup
    /\ IdlePageVars
    /\ IdleParse
    /\ IdleCalls
    /\ IdleReport
    /\ cr_args \in [ start_url : {UrlA}, depth : (-1)..MaxDepth ]
    /\ site \in [ SiteUrls -> LinkLists ]
    /\ visited_urls \in { {}, {UrlB} }
    /\ pages_data = << >>
    /\ stack = << >>
    /\ fetched = << >>
    /\ followed = << >>
    /\ cr_pc = "start"

\* crawl, lines 175-180: visited_urls.clear(), pages_data = [], and the call
\* _crawl_recursive(start_url, depth, pages_data)
Crawl ==
    /\ cr_pc = "start"
    /\ visited_urls' = {}
    /\ pages_data' = << >>
    /\ stack' = << Frame(cr_args.start_url, cr_args.depth, 0, "call", << >>) >>
    /\ cr_pc' = "crawling"
    /\ UNCHANGED << cr_args, site, fetched, followed >>
    /\ UNCHANGED << scriptVars, dedupVars, pageVars, parseVars, callVars, reportVars >>

\* _crawl_recursive, lines 197-229: the guard, the mark, the fetch (which
\* finds the page or fails and gives None) and the list of links to follow
Enter ==
    /\ cr_pc = "crawling"
    /\ stack # << >>
    /\ Top.phase = "call"
    /\ IF returns_at_once(Top.url, Top.depth, visited_urls)
       THEN /\ stack' = Pop
            /\ UNCHANGED << visited_urls, pages_data, fetched >>
       ELSE /\ visited_urls' = visited_urls \cup { Top.url }
            /\ fetched' = Append(fetched, [ url |-> Top.url, depth |-> Top.depth,
                                            hops |-> Top.hops ])
            /\ \E found \in BOOLEAN :
                  IF found
                  THEN LET page == [ url |-> Top.url, links |-> site[Top.url] ]
                           links == limit_links(
                                        same_domain_links(Top.url, page.links,
                                                          visited_urls'))
                       IN  /\ pages_data' = Append(pages_data, page)
                           /\ stack' = Append(Pop,
                                            Frame(Top.url, Top.depth, Top.hops,
                                                  "loop", links))
                  ELSE /\ stack' = Pop
                       /\ UNCHANGED pages_data
    /\ UNCHANGED << cr_args, site, followed, cr_pc >>
    /\ UNCHANGED << scriptVars, dedupVars, pageVars, parseVars, callVars, reportVars >>

\* lines 232-233: the next link of the loop is followed
Follow ==
    /\ cr_pc = "crawling"
    /\ stack # << >>
    /\ Top.phase = "loop"
    /\ Top.links # << >>
    /\ stack' = Append(Append(Pop, [Top EXCEPT !.links = Tail(@)]),
                       Frame(Head(Top.links), next_depth(Top.depth), Top.hops + 1,
                             "call", << >>))
    /\ followed' = Append(followed, [ from |-> Top.url, to |-> Head(Top.links) ])
    /\ UNCHANGED << cr_args, site, visited_urls, pages_data, fetched, cr_pc >>
    /\ UNCHANGED << scriptVars, dedupVars, pageVars, parseVars, callVars, reportVars >>

\* the loop of lines 232-233 is over: the call returns
Leave ==
    /\ cr_pc = "crawling"
    /\ stack # << >>
    /\ Top.phase = "loop"
    /\ Top.links = << >>
    /\ stack' = Pop
    /\ UNCHANGED << cr_args, site, visited_urls, pages_data, fetched, followed, cr_pc >>
    /\ UNCHANGED << scriptVars, dedupVars, pageVars, parseVars, callVars, reportVars >>

\* crawl, lines 181-185: the driver is closed and pages_data returned
Finish ==
    /\ cr_pc = "crawling"
    /\ stack = << >>
    /\ cr_pc' = "returned"
    /\ UNCHANGED << cr_args, site, visited_urls, pages_data, stack, fetched, followed >>
    /\ UNCHANGED << scriptVars, dedupVars, pageVars, parseVars, callVars, reportVars >>

NextCrawl ==
    \/ Crawl
    \/ Enter
    \/ Follow
    \/ Leave
    \/ Finish

SpecCrawl == InitCrawl /\ [][NextCrawl]_vars

\* crawl is sequential code on one thread, and driver.get returns or raises
\* (the fetch of Enter): a step that can be taken is taken.
SpecCrawlLive == SpecCrawl /\ WF_vars(NextCrawl)

-----------------------------------------------------------------------------
(* Properties.                                                             *)

AfterScripts == pc \in {"input_pass", "event_pass", "script_pass", "url_pass",
                        "return", "except", "done"}
AfterInputPass == pc \in {"event_pass", "script_pass", "url_pass", "return",
                          "except", "done"}
AfterParse == pc \notin {"idle", "start", "parse"}

HighCount(c)   == Cardinality(c.matches \cap HighSigs)
MediumCount(c) == Cardinality(c.matches \cap MediumSigs)
Scored == sc_pc \in {"scored", "rescored"}

\* the records of `out` that report the verdict named `id`
ScriptRecords(out, id) ==
    SelectSeq(out, LAMBDA r : r.type = "script_xss" /\ Get(r, "script_id", "") = id)

\* C1: when analyze has returned, every verdict of level high has exactly one
\* script_xss record in the output, of severity Alto, of subtype
\* obfuscated_script if obfuscation was detected and high_risk_script
\* otherwise, with at most three key issues.
C1_HighVerdictReported ==
    pc = "done" =>
        \A k \in DOMAIN script_analysis.script_analysis :
            LET v == script_analysis.script_analysis[k]
                recs == ScriptRecords(result, v.id)
            IN  v.risk_level = "high" =>
                    /\ Len(recs) = 1
                    /\ recs[1].severity = "Alto"
                    /\ recs[1].subtype = IF v.obfuscation_detected
                                         THEN "obfuscated_script"
                                         ELSE "high_risk_script"
                    /\ Len(recs[1].key_issues) <= 3

\* C2: analyze always returns; if a step raised it returns the empty list, and
\* otherwise the concatenation of the four passes' outputs in order; it never
\* returns only the records built before a failure.
C2_AllOrNothing ==
    pc = "done" =>
        LET url     == page_data.url
            scripts == find_script_vulnerabilities(url, html_analysis, script_analysis)
        IN  /\ raised <=> scripts.raised
            /\ raised => result = << >>
            /\ ~raised =>
                  result =
                      find_input_vulnerabilities(url, visual_analysis, html_analysis,
                                                 script_analysis)
                      \o find_event_vulnerabilities(url, html_analysis)
                      \o scripts.vulns
                      \o find_url_vulnerabilities(url, html_analysis)

\* C2 witness: a pass raised after earlier passes had built records, and
\* analyze returned the empty list.
C2_Witness ==
    pc = "done" /\ raised /\ vulnerabilities # << >> /\ result = << >>

\* C3: a script whose analysis fails does not discard the verdicts of the
\* other scripts of the list: every script with a scannable, non-empty content
\* has its verdict in the script analysis the correlation reads.
C3_OtherVerdictsKept ==
    AfterScripts =>
        \A i \in DOMAIN page_data.scripts :
            page_data.scripts[i].content.kind = "text" =>
                \E k \in DOMAIN script_analysis.script_analysis :
                    script_analysis.script_analysis[k].id = script_name(i - 1)

\* C4: the risk score never decreases when the content matches one more
\* distinct high-risk signature.
C4_ScoreMonotonic ==
    sc_pc = "rescored" => sc_verdict.risk_score >= sc_prev.risk_score

\* C5: risk_score = min(100, 25*h + 10*m + 20*o), m counted only when h = 0;
\* the score is an integer in 0..100, h is in 0..8, and dangerous_functions
\* never holds a high-tier and a medium-tier entry together.
C5_ScoreFormula ==
    Scored =>
        LET h == HighCount(sc_content)
            m == IF h = 0 THEN MediumCount(sc_content) ELSE 0
            o == IF sc_content.matches \cap ObfSigs # {} THEN 1 ELSE 0
            funcs == sc_verdict.dangerous_functions
        IN  /\ h \in 0..8
            /\ sc_verdict.risk_score = Min(100, 25 * h + 10 * m + 20 * o)
            /\ sc_verdict.risk_score \in 0..100
            /\ sc_verdict.obfuscation_detected <=> (o = 1)
            /\ Len(funcs) = h + m
            /\ ~ (/\ \E k \in DOMAIN funcs : funcs[k].risk = "high"
                  /\ \E k \in DOMAIN funcs : funcs[k].risk = "medium")

\* C5 witness: a content matching all eight high-risk signatures and some
\* medium-risk ones, scored 100.
C5_Witness ==
    /\ sc_pc = "scored"
    /\ HighCount(sc_content) = 8
    /\ MediumCount(sc_content) > 0
    /\ sc_verdict.risk_score = 100

\* C6: the level is a function of the reported score: high iff score >= 70,
\* medium iff 40 <= score < 70, low iff 10 <= score < 40, safe iff score < 10;
\* a content matching only the eval signature scores 25 and is low.
C6_LevelFromScore ==
    Scored =>
        LET score == sc_verdict.risk_score
            level == sc_verdict.risk_level
        IN  /\ (level = "high")   <=> (score >= 70)
            /\ (level = "medium") <=> (40 <= score /\ score < 70)
            /\ (level = "low")    <=> (10 <= score /\ score < 40)
            /\ (level = "safe")   <=> (score < 10)
            /\ sc_content.matches = {"eval("} => score = 25 /\ level = "low"

\* C6 witness: the content matching only the eval signature, scored.
C6_Witness ==
    sc_pc = "scored" /\ sc_content.matches = {"eval("} /\ sc_verdict.risk_level = "low"

\* the indices of L holding the first record of their (url, type, description)
FirstIndices(L) ==
    { i \in DOMAIN L :
        \A j \in 1..(i - 1) :
            << L[j].url, L[j].type, L[j].description >>
                # << L[i].url, L[i].type, L[i].description >> }

\* the n-th smallest element of a finite set of integers
RECURSIVE Nth(_, _)
Nth(S, n) ==
    LET least == CHOOSE x \in S : \A y \in S : x <= y
    IN  IF n = 1 THEN least ELSE Nth(S \ {least}, n - 1)

\* C7: deduplication keeps exactly the first record of each distinct
\* (url, type, description), in the order of the input, and deduplicating its
\* result again changes nothing.
C7_DedupIdempotent ==
    /\ rg_pc \in {"once", "twice"} =>
          LET first == FirstIndices(rg_vulns)
          IN  /\ Len(rg_unique) = Cardinality(first)
              /\ \A n \in DOMAIN rg_unique : rg_unique[n] = rg_vulns[Nth(first, n)]
    /\ rg_pc = "twice" => rg_again = rg_unique

\* C7 witness: a list with a duplicate key and two distinct keys,
\* deduplicated twice.
C7_Witness ==
    /\ rg_pc = "twice"
    /\ Len(rg_unique) = 2
    /\ Len(rg_vulns) = 3

\* C8: without visual findings the input-surface pass emits, in order, one
\* input_xss record of severity Médio per structural element whose suspicious
\* flag is set, carrying that element's xss_vector, and nothing else; a lone
\* <input type="text" onload="eval(x)"> yields one record with the vector
\* "Event handler: onload=eval(x)".
C8_NoVisualInputRecords ==
    AfterInputPass /\ visual_analysis.is_none =>
        LET inputs == html_analysis.inputs
            flagged == { i \in DOMAIN inputs : inputs[i].suspicious }
            out == pass_out.input
        IN  /\ Len(out) = Cardinality(flagged)
            /\ \A n \in DOMAIN out :
                  /\ out[n].type = "input_xss"
                  /\ out[n].severity = "Médio"
                  /\ out[n].evidence = inputs[Nth(flagged, n)]
                  /\ out[n].vulnerability = inputs[Nth(flagged, n)].xss_vector
            /\ page_data.html.soup =
                  << Elem("input", << <<"type", "text">>, <<"onload", "eval(x)">> >>) >>
               => /\ Len(out) = 1
                  /\ out[1].vulnerability = "Event handler: onload=eval(x)"

\* C8 witness: no visual findings, a page with the input of the scenario and
\* an input that is not suspicious; one record came out.
C8_Witness ==
    /\ pc = "done"
    /\ visual_analysis.is_none
    /\ Len(html_analysis.inputs) = 2
    /\ Len(pass_out.input) = 1
    /\ pass_out.input[1].vulnerability = "Event handler: onload=eval(x)"
    /\ pass_out.input[1].severity = "Médio"

MissingScreenshot ==
    ~page_data.screenshot_path.given \/ ~page_data.screenshot_path.exists

\* C9: when the screenshot path is absent or names no file, the visual
\* detector yields null, and the input-surface pass still reports every
\* suspicious structural input, by the branch without visual findings.
C9_MissingScreenshotFallback ==
    pc # "idle" /\ MissingScreenshot =>
        /\ VisualAnalyzer_analyze(page_data.screenshot_path) = None
        /\ pc # "start" => visual_analysis = None
        /\ AfterInputPass =>
              \A i \in DOMAIN html_analysis.inputs :
                  html_analysis.inputs[i].suspicious =>
                      \E n \in DOMAIN pass_out.input :
                          /\ pass_out.input[n].type = "input_xss"
                          /\ pass_out.input[n].subtype = "suspicious_attribute"
                          /\ pass_out.input[n].evidence = html_analysis.inputs[i]

\* C9 witness: a path to a file that does not exist, a suspicious input, and
\* its record.
C9_Witness ==
    /\ pc = "done"
    /\ page_data.screenshot_path.given
    /\ ~page_data.screenshot_path.exists
    /\ pass_out.input # << >>

\* the elements _analyze_inputs reports, in its order
InputElements(soup) ==
    find_all(soup, "input") \o find_all(soup, "textarea") \o find_all(soup, "select")

Offending(tag) ==
    \E k \in DOMAIN tag.attrs :
        \/ tag.attrs[k][1] \in event_attributes
        \/ Contains(Lower(tag.attrs[k][2]), "javascript:")

\* C10: an input, textarea or select is flagged suspicious if and only if one
\* of its attributes is an event attribute or one of its attribute values
\* contains 'javascript:' in any letter case.
C10_SuspiciousIffOffending ==
    AfterParse =>
        LET tags == InputElements(page_data.html.soup)
        IN  \A i \in DOMAIN html_analysis.inputs :
                html_analysis.inputs[i].suspicious <=> Offending(tags[i])

ParseReturned == hp_pc = "returned"

\* the sub-analyses parse completed: those before the faulting one
Completed(step) ==
    /\ hp_html.fault # "soup"
    /\ \E k \in DOMAIN sub_analyses :
          /\ sub_analyses[k] = step
          /\ \A j \in 1..k : sub_analyses[j] # hp_html.fault

\* the vectors of the offending checks of an element, in the order the checks
\* meet them: a select's options, then the attributes in the map's order, an
\* attribute's name before its value
RECURSIVE AttrVectors(_, _)
AttrVectors(attrs, with_values) ==
    IF attrs = << >> THEN << >>
    ELSE LET attr == Head(attrs)[1]
             value == Head(attrs)[2]
         IN  (IF attr \in event_attributes
              THEN << "Event handler: " \o attr \o "=" \o value >> ELSE << >>)
             \o (IF with_values /\ Contains(Lower(value), "javascript:")
                 THEN << "JavaScript in attribute: " \o attr \o "=" \o value >>
                 ELSE << >>)
             \o AttrVectors(Tail(attrs), with_values)

OptionVectors(options) ==
    MapSeq(LAMBDA o : "JavaScript in option value: " \o o,
           SelectSeq(options, LAMBDA o : Contains(Lower(o), "javascript:")))

OffendingVectors(tag) ==
    OptionVectors(tag.options) \o AttrVectors(tag.attrs, tag.tag = "input")

\* C11: every suspicious input, textarea or select carries as xss_vector the
\* vector of its first offending check in encounter order, also when the
\* element has two or more offending attributes.
C11_FirstOffendingVector ==
    ParseReturned /\ Completed("inputs") =>
        LET tags == InputElements(hp_html.soup)
            inputs == hp_results.inputs
        IN  \A i \in DOMAIN inputs :
                inputs[i].suspicious =>
                    inputs[i].xss_vector = Head(OffendingVectors(tags[i]))

AfterEventPass == pc \in {"script_pass", "url_pass", "return", "except", "done"}

\* a binding has a handler of a high-risk event whose code contains one of the
\* five dangerous tokens, compared without regard to letter case
CriticalBinding(handlers) ==
    \E k \in DOMAIN handlers :
        /\ Lower(handlers[k][1]) \in
              { "onclick", "onkeypress", "onkeyup", "onkeydown", "onchange",
                "onsubmit", "onload", "onerror" }
        /\ \E danger \in {"eval(", "function(", "document.write", "innerHTML",
                          "location"} :
              Contains(Lower(handlers[k][2]), Lower(danger))

\* C12: every event_handler_xss record has severity Alto and subtype
\* critical_handler if and only if its binding has a handler of a high-risk
\* event whose code contains 'eval(', 'function(', 'document.write',
\* 'innerHTML' or 'location'; otherwise Médio and suspicious_handler.
C12_EventSeverity ==
    AfterEventPass =>
        \A n \in DOMAIN pass_out.event :
            LET rec == pass_out.event[n]
            IN  /\ rec.type = "event_handler_xss"
                /\ IF CriticalBinding(rec.handlers)
                   THEN rec.severity = "Alto" /\ rec.subtype = "critical_handler"
                   ELSE rec.severity = "Médio" /\ rec.subtype = "suspicious_handler"

Anchors(soup) == SelectSeq(find_all(soup, "a"), LAMBDA t : has_attr(t, "href"))

JavaScriptHref(href) == StartsWith(Lower(href), "javascript:")

\* C13: every anchor whose href starts with 'javascript:' in any letter case
\* is retained in links, marked suspicious, with an xss_vector beginning
\* 'JavaScript URI:', whatever other attributes the anchor carries.
C13_JavaScriptUriVector ==
    ParseReturned /\ Completed("links") =>
        LET anchors == Anchors(hp_html.soup)
            links == hp_results.links
        IN  /\ \A i \in DOMAIN anchors :
                  JavaScriptHref(tag_get(anchors[i].attrs, "href", "")) =>
                      \E k \in DOMAIN links :
                          links[k].href = tag_get(anchors[i].attrs, "href", "")
            /\ \A k \in DOMAIN links :
                  JavaScriptHref(links[k].href) =>
                      /\ links[k].suspicious
                      /\ StartsWith(links[k].xss_vector, "JavaScript URI:")

\* the href carries query parameters and is not a javascript: URI
ParameterHref(href) == Contains(href, "?") /\ ~JavaScriptHref(href)

\* C14: every anchor whose href is not a javascript: URI and carries query
\* parameters, absolute or relative, is flagged suspicious whenever some
\* decoded value of some parameter, repeated ones included, contains
\* '<script', 'javascript:', 'onerror=' or 'onload=' in any letter case; a
\* malformed URL counts as having no parameters.
C14_SuspiciousParameter ==
    ParseReturned /\ Completed("links") =>
        LET anchors == Anchors(hp_html.soup)
            links == hp_results.links
        IN  \A i \in DOMAIN anchors :
                LET href == tag_get(anchors[i].attrs, "href", "")
                IN  /\ ParameterHref(href)
                    /\ ~anchors[i].malformed
                    /\ \E q \in DOMAIN anchors[i].query :
                          suspicious_value(anchors[i].query[q][2])
                    => \E k \in DOMAIN links :
                          links[k].href = href /\ links[k].suspicious

\* the structural inputs a visual field is matched against
MatchedInputs(field, inputs) ==
    { i \in DOMAIN inputs :
        \/ field.type # "text_input"
        \/ inputs[i].tag = "textarea"
        \/ /\ inputs[i].tag = "input"
           /\ inputs[i].type \in {"text", "password", "email", "search"} }

\* some verdict has an input-handling entry flagged dangerous_usage whose
\* context holds the input's non-empty id or name
DangerouslyUsed(input, verdicts) ==
    \E k \in DOMAIN verdicts :
        /\ "user_input_handling" \in DOMAIN verdicts[k]
        /\ \E j \in DOMAIN verdicts[k].user_input_handling :
              LET entry == verdicts[k].user_input_handling[j]
              IN  /\ entry.dangerous_usage
                  /\ \/ input.id # "" /\ Contains(entry.context, input.id)
                     \/ input.name # "" /\ Contains(entry.context, input.name)

\* the (visual field, matched input) pairs that get a record, in the order of
\* the pass: field by field, input by input
RECURSIVE ReportedPairs(_, _, _, _, _)
ReportedPairs(fields, inputs, verdicts, f, i) ==
    IF f > Len(fields) THEN << >>
    ELSE IF i > Len(inputs) THEN ReportedPairs(fields, inputs, verdicts, f + 1, 1)
    ELSE (IF i \in MatchedInputs(fields[f], inputs)
             /\ (inputs[i].suspicious \/ DangerouslyUsed(inputs[i], verdicts))
          THEN << << f, i >> >> ELSE << >>)
         \o ReportedPairs(fields, inputs, verdicts, f, i + 1)

\* C15: with visual findings, a text_input field is matched against the
\* inputs of type text/password/email/search and the textareas, any other
\* field against all structural inputs; each (field, matched input) pair gets
\* one input_xss record, Alto if the input is dangerously used by a flagged
\* input-handling entry, else Médio if the input is suspicious, and no
\* record otherwise.
C15_VisualInputRecords ==
    AfterInputPass /\ ~visual_analysis.is_none =>
        LET fields == visual_analysis.input_fields
            inputs == html_analysis.inputs
            verdicts == script_analysis.script_analysis
            pairs == ReportedPairs(fields, inputs, verdicts, 1, 1)
            out == pass_out.input
        IN  /\ Len(out) = Len(pairs)
            /\ \A n \in DOMAIN out :
                  LET field == fields[pairs[n][1]]
                      input == inputs[pairs[n][2]]
                  IN  /\ out[n].type = "input_xss"
                      /\ out[n].html_evidence = input
                      /\ out[n].visual_position =
                            [ x |-> field.x, y |-> field.y,
                              width |-> field.width, height |-> field.height ]
                      /\ out[n].severity =
                            IF DangerouslyUsed(input, verdicts) THEN "Alto" ELSE "Médio"

\* C15 witness: a text_input field matched with a text input that is not
\* suspicious and is reported Alto for its use in a flagged context.
C15_Witness ==
    /\ AfterInputPass
    /\ ~visual_analysis.is_none
    /\ \E f \in DOMAIN visual_analysis.input_fields :
          visual_analysis.input_fields[f].type = "text_input"
    /\ \E n \in DOMAIN pass_out.input :
          /\ pass_out.input[n].severity = "Alto"
          /\ ~pass_out.input[n].html_evidence.suspicious

\* C16: when analyze has returned, every verdict of level medium with a score
\* of at least 60 has exactly one script_xss record in the output, of
\* severity Médio and subtype medium_risk_script; a verdict of level medium
\* below 60, low or safe has none.
C16_MediumVerdictReported ==
    pc = "done" =>
        \A k \in DOMAIN script_analysis.script_analysis :
            LET v == script_analysis.script_analysis[k]
                recs == ScriptRecords(result, v.id)
            IN  /\ v.risk_level = "medium" /\ v.risk_score >= 60 =>
                      /\ Len(recs) = 1
                      /\ recs[1].severity = "Médio"
                      /\ recs[1].subtype = "medium_risk_script"
                /\ \/ v.risk_level = "medium" /\ v.risk_score < 60
                   \/ v.risk_level \in {"low", "safe"}
                   => recs = << >>

\* C17: parse returns a bundle with all seven keys and base_url equal to the
\* given url; each list holds its sub-analysis' result if that sub-analysis
\* ran before any failure, and is empty for the failing sub-analysis and all
\* later ones.
C17_PartialBundle ==
    ParseReturned =>
        /\ DOMAIN hp_results =
              { "inputs", "forms", "event_handlers", "inline_scripts",
                "suspicious_patterns", "links", "base_url" }
        /\ hp_results.base_url = PageUrl
        /\ hp_results.inputs =
              IF Completed("inputs") THEN analyze_inputs(hp_html.soup) ELSE << >>
        /\ hp_results.forms =
              IF Completed("forms") THEN analyze_forms(hp_html.soup) ELSE << >>
        /\ hp_results.event_handlers =
              IF Completed("event_handlers")
              THEN analyze_event_handlers(hp_html.soup) ELSE << >>
        /\ hp_results.inline_scripts =
              IF Completed("inline_scripts")
              THEN analyze_inline_scripts(hp_html.soup) ELSE << >>
        /\ hp_results.suspicious_patterns =
              IF Completed("suspicious_patterns")
              THEN find_suspicious_patterns(hp_html.raw) ELSE << >>
        /\ hp_results.links =
              IF Completed("links") THEN analyze_links(hp_html.soup) ELSE << >>

\* C17 witness: the scan of the raw markup fails on a page with a form, a
\* script and a link; the bundle keeps the four earlier results and has no
\* patterns and no links.
C17_Witness ==
    /\ ParseReturned
    /\ hp_html.fault = "suspicious_patterns"
    /\ hp_html.raw # << >>
    /\ hp_results.inputs # << >>
    /\ hp_results.forms # << >>
    /\ hp_results.event_handlers # << >>
    /\ analyze_links(hp_html.soup) # << >>
    /\ hp_results.links = << >>
    /\ hp_results.suspicious_patterns = << >>

\* the positions of the elements that carry an event attribute
WithEventAttribute(soup) ==
    { i \in DOMAIN soup :
        \E a \in DOMAIN soup[i].attrs : soup[i].attrs[a][1] \in event_attributes }

\* C19: event_handlers holds, in document order, exactly one binding for each
\* element with at least one event attribute and none for the others; the
\* binding's handlers hold every event attribute of the element with its
\* value unchanged, and no other attribute.
C19_OneBindingPerElement ==
    ParseReturned /\ Completed("event_handlers") =>
        LET soup == hp_html.soup
            with == WithEventAttribute(soup)
            bindings == hp_results.event_handlers
        IN  /\ Len(bindings) = Cardinality(with)
            /\ \A n \in DOMAIN bindings :
                  LET tag == soup[Nth(with, n)]
                      handlers == bindings[n].handlers
                  IN  /\ bindings[n].tag_name = tag.tag
                      /\ \A a \in DOMAIN tag.attrs :
                            tag.attrs[a][1] \in event_attributes =>
                                \E h \in DOMAIN handlers : handlers[h] = tag.attrs[a]
                      /\ \A h \in DOMAIN handlers :
                            /\ handlers[h][1] \in event_attributes
                            /\ \E a \in DOMAIN tag.attrs : tag.attrs[a] = handlers[h]
                      /\ \A h, g \in DOMAIN handlers :
                            handlers[h][1] = handlers[g][1] => h = g

\* C19 witness: a div with a class and two event attributes next to an
\* element without any; one binding with both handlers.
C19_Witness ==
    /\ ParseReturned
    /\ Len(hp_html.soup) = 2
    /\ Len(hp_results.event_handlers) = 1
    /\ hp_results.event_handlers[1].tag_name = "div"
    /\ hp_results.event_handlers[1].handlers =
          << <<"onclick", "x.innerHTML=y">>, <<"onmouseover", "hint()">> >>

RecordTypes ==
    { "input_xss", "event_handler_xss", "script_xss", "inline_script_xss",
      "url_xss", "pattern_xss" }

Severities == { "Alto", "Médio", "Baixo", "Informativo" }

WellFormedRecord(rec) ==
    /\ rec.description # ""
    /\ rec.recommendation # ""
    /\ rec.type \in RecordTypes
    /\ rec.severity \in Severities
    /\ rec.url = page_data.url

\* C18: every record a correlation pass produces has a non-empty description
\* and a non-empty recommendation, a type and a severity of the closed sets,
\* and the url of the page.
C18_RecordsWellFormed ==
    /\ \A n \in DOMAIN vulnerabilities : WellFormedRecord(vulnerabilities[n])
    /\ \A n \in DOMAIN result : WellFormedRecord(result[n])
    /\ \A p \in DOMAIN pass_out :
          \A n \in DOMAIN pass_out[p] : WellFormedRecord(pass_out[p][n])

\* C18 witness: the passes returned records of which one reports an input
\* without a vector of its own, described by its dangerous use.
C18_Witness ==
    /\ pc = "done"
    /\ ~raised
    /\ \E n \in DOMAIN result :
          /\ result[n].subtype = "input_with_dangerous_usage"
          /\ "xss_vector" \notin DOMAIN result[n].html_evidence

\* the calls that have returned, oldest first, each with its page and result
ReturnedCalls ==
    analysed \o (IF pc = "done"
                 THEN << [page |-> page_data, result |-> result,
                           raised |-> raised] >>
                 ELSE << >>)

\* C20: the records analyze returns for a page depend on that page record
\* only: they are those a detector that analysed nothing before returns for
\* it, whatever pages the instance analysed earlier and in whatever order,
\* and two calls with the same page record return the same records.
C20_StatelessAcrossPages ==
    /\ \A i \in DOMAIN ReturnedCalls :
          ReturnedCalls[i].result = XSSDetector_analyze(ReturnedCalls[i].page)
    /\ \A i, j \in DOMAIN ReturnedCalls :
          ReturnedCalls[i].page = ReturnedCalls[j].page =>
              ReturnedCalls[i].result = ReturnedCalls[j].result

\* C20 witness: a page analysed first and again third, with records both
\* times, after a second, different page whose analysis raised.
C20_Witness ==
    /\ pc = "done"
    /\ Len(analysed) = 2
    /\ analysed[1].page = page_data
    /\ analysed[2].page # page_data
    /\ analysed[2].result = << >>
    /\ analysed[2].page.scripts # << >>
    /\ result # << >>

\* the pages of the filed calls, and the concatenation of their results
RECURSIVE PagesOf(_)
PagesOf(calls) ==
    IF calls = << >> THEN << >>
    ELSE << Head(calls).page >> \o PagesOf(Tail(calls))

RECURSIVE ResultsOf(_)
ResultsOf(calls) ==
    IF calls = << >> THEN << >>
    ELSE Head(calls).result \o ResultsOf(Tail(calls))

\* the page a call is working on or has just returned from
InCall == IF pc = "idle" THEN << >> ELSE << page_data >>

PagesInOrder ==
    /\ PagesOf(analysed) \o InCall \o pending = run_pages
    /\ run_results = ResultsOf(analysed)
    /\ \A i \in DOMAIN analysed :
          analysed[i].raised => analysed[i].result = << >>

RunFinished ==
    /\ pc = "idle"
    /\ pending = << >>
    /\ Len(analysed) = Len(run_pages)

\* C21: in a run over several pages the pages are analysed one at a time in
\* the order of the list, the accumulated list is at every moment the
\* concatenation, in page order, of what analyze returned for the pages done
\* so far, a page whose analysis raised adds nothing, and the run goes on to
\* analyse every page of the list, those after a failed page included.
C21_PagesAccumulated == [] PagesInOrder /\ <> RunFinished

\* C21 witness: the run is over, its second page raised inside analyze and
\* added nothing, and the first and the third page both added records.
C21_Witness ==
    /\ RunFinished
    /\ Len(analysed) = 3
    /\ analysed[2].raised
    /\ analysed[1].result # << >>
    /\ analysed[3].result # << >>
    /\ run_results = analysed[1].result \o analysed[3].result

\* the sum of the counters of a dict
RECURSIVE SumOf(_)
SumOf(counts) ==
    IF DOMAIN counts = {} THEN 0
    ELSE LET k == CHOOSE k \in DOMAIN counts : TRUE
         IN  counts[k] + SumOf([j \in DOMAIN counts \ {k} |-> counts[j]])

ReportFields ==
    {"type", "subtype", "url", "severity", "description", "recommendation"}

\* C22: generate_report on an empty list returns None and writes no file; on
\* a non-empty list it returns the output path and the file holds one
\* summary whose total is the length of the list, whose counts per type and
\* counts per severity each add up to that total, and whose record list has
\* one simplified record per input record, in input order, repeated records
\* included.
C22_ReportSummary ==
    gr_pc = "returned" =>
        IF gr_vulns = << >>
        THEN gr_return = None /\ gr_file = None
        ELSE /\ gr_return = OutputPath
             /\ gr_file # None
             /\ gr_file.total_vulnerabilities = Len(gr_vulns)
             /\ SumOf(gr_file.vulnerabilities_by_type) = Len(gr_vulns)
             /\ SumOf(gr_file.vulnerabilities_by_severity) = Len(gr_vulns)
             /\ \A t \in DOMAIN gr_file.vulnerabilities_by_type :
                   gr_file.vulnerabilities_by_type[t] =
                       Cardinality({ i \in DOMAIN gr_vulns : gr_vulns[i].type = t })
             /\ \A v \in DOMAIN gr_file.vulnerabilities_by_severity :
                   gr_file.vulnerabilities_by_severity[v] =
                       Cardinality({ i \in DOMAIN gr_vulns : gr_vulns[i].severity = v })
             /\ Len(gr_file.vulnerabilities) = Len(gr_vulns)
             /\ \A i \in DOMAIN gr_vulns :
                   /\ DOMAIN gr_file.vulnerabilities[i] = ReportFields
                   /\ \A f \in ReportFields :
                         gr_file.vulnerabilities[i][f] = Get(gr_vulns[i], f, "")

\* C22 witness: a report written for three records of two types and two
\* severities, the first and the third the same record, the second without a
\* subtype.
C22_Witness ==
    /\ gr_pc = "returned"
    /\ Len(gr_vulns) = 3
    /\ gr_return = OutputPath
    /\ gr_vulns[1] = gr_vulns[3]
    /\ "subtype" \notin DOMAIN gr_vulns[2]
    /\ gr_vulns[1].severity = "Alto"
    /\ Len(gr_file.vulnerabilities) = 3

\* the indices (from 0) of the scripts whose content is not empty, in order
RECURSIVE KeptIndices(_, _)
KeptIndices(scripts, i) ==
    IF i >= Len(scripts) THEN << >>
    ELSE (IF scripts[i + 1].content.kind \in {"none", "empty"}
          THEN << >> ELSE << i >>)
         \o KeptIndices(scripts, i + 1)

LevelCount(verdicts, level) ==
    Cardinality({ k \in DOMAIN verdicts : verdicts[k].risk_level = level })

VerdictPerScript(scripts, results) ==
    LET kept     == KeptIndices(scripts, 0)
        verdicts == results.script_analysis
    IN  /\ Len(verdicts) = Len(kept)
        /\ \A k \in DOMAIN kept : verdicts[k].id = script_name(kept[k])
        /\ \A k, l \in DOMAIN verdicts :
              verdicts[k].id = verdicts[l].id => k = l
        /\ results.high_risk_scripts = LevelCount(verdicts, "high")
        /\ results.medium_risk_scripts = LevelCount(verdicts, "medium")
        /\ results.scripts_analyzed = Len(scripts)

\* C23: when ScriptAnalyzer.analyze has returned, its result holds one
\* verdict for each script of the list whose content is not empty and none
\* for the others (external scripts without content, scripts with empty
\* content), in list order, each named after the script's index in the list,
\* so that no two share a name; the high and medium counters are the numbers
\* of verdicts of those levels and scripts_analyzed is the length of the
\* list, skipped scripts included.
C23_VerdictPerScript ==
    (AfterScripts /\ ~script_error) =>
        VerdictPerScript(page_data.scripts, script_analysis)

\* C23 witness: a list of two scripts, the first skipped for its empty
\* content, the second scored under the name script_1.
C23_Witness ==
    /\ AfterScripts
    /\ ~script_error
    /\ Len(page_data.scripts) = 2
    /\ page_data.scripts[1].content = EmptyContent
    /\ Len(script_analysis.script_analysis) = 1
    /\ script_analysis.script_analysis[1].id = "script_1"
    /\ script_analysis.scripts_analyzed = 2
    /\ script_analysis.high_risk_scripts + script_analysis.medium_risk_scripts = 1

\* C24: the excerpt of every pattern match parse returns has at most 103
\* characters: it is the raw match when that has at most 100 characters, and
\* otherwise the first 100 characters of the raw match followed by three dots.
C24_ExcerptLength ==
    (ParseReturned /\ Len(hp_results.suspicious_patterns) = Len(hp_html.raw)) =>
        \A i \in DOMAIN hp_html.raw :
            LET text  == hp_html.raw[i].text
                match == hp_results.suspicious_patterns[i].match
            IN  /\ Len(match) <= 103
                /\ IF Len(text) > 100
                   THEN match = SubSeq(text, 1, 100) \o "..."
                   ELSE match = text

\* C24 witness: a raw match of 150 characters reported with an excerpt of 103
C24_Witness ==
    /\ ParseReturned
    /\ Len(hp_html.raw) = 1
    /\ Len(hp_html.raw[1].text) = 150
    /\ Len(hp_results.suspicious_patterns) = 1
    /\ Len(hp_results.suspicious_patterns[1].match) = 103

\* the values of one field along a list of records
RECURSIVE FieldOf(_, _)
FieldOf(records, field) ==
    IF records = << >> THEN << >>
    ELSE << Head(records)[field] >> \o FieldOf(Tail(records), field)

\* `short` can be had from `long` by leaving entries out
RECURSIVE IsSubsequence(_, _)
IsSubsequence(short, long) ==
    IF short = << >> THEN TRUE
    ELSE IF long = << >> THEN FALSE
    ELSE IF Head(short) = Head(long) THEN IsSubsequence(Tail(short), Tail(long))
    ELSE IsSubsequence(short, Tail(long))

SuspiciousOf(items) == SelectSeq(items, LAMBDA t : Get(t, "suspicious", FALSE))

OfType(records, type) == SelectSeq(records, LAMBDA r : r.type = type)

\* C25: when the correlation returns, its list is the input pass's records
\* (all input_xss), then one event_handler_xss record per event-handler
\* binding in binding order, then the script_xss records in verdict order
\* followed by one inline_script_xss record per suspicious inline script,
\* then one Médio url_xss record per suspicious link followed by one Médio
\* pattern_xss record per pattern match; nothing is dropped or merged across
\* passes, and the list is empty when none of these sources has an item.
C25_PassesConcatenated ==
    (pc = "done" /\ ~raised) =>
        LET bindings == html_analysis.event_handlers
            inline   == SuspiciousOf(html_analysis.inline_scripts)
            links    == SuspiciousOf(html_analysis.links)
            patterns == html_analysis.suspicious_patterns
            verdicts == script_analysis.script_analysis
            scripts  == OfType(pass_out.script, "script_xss")
            urls     == OfType(pass_out.url, "url_xss")
        IN  /\ result = pass_out.input \o pass_out.event \o pass_out.script
                        \o pass_out.url
            /\ \A i \in DOMAIN pass_out.input : pass_out.input[i].type = "input_xss"
            /\ FieldOf(pass_out.event, "type")
                   = [i \in DOMAIN bindings |-> "event_handler_xss"]
            /\ FieldOf(pass_out.event, "evidence") = bindings
            /\ pass_out.script
                   = scripts \o OfType(pass_out.script, "inline_script_xss")
            /\ IsSubsequence(FieldOf(scripts, "script_id"), FieldOf(verdicts, "id"))
            /\ FieldOf(SubSeq(pass_out.script, Len(scripts) + 1, Len(pass_out.script)),
                       "evidence") = inline
            /\ pass_out.url = urls \o OfType(pass_out.url, "pattern_xss")
            /\ FieldOf(urls, "evidence") = links
            /\ FieldOf(SubSeq(pass_out.url, Len(urls) + 1, Len(pass_out.url)),
                       "evidence") = patterns
            /\ \A i \in DOMAIN pass_out.url : pass_out.url[i].severity = "Médio"
            /\ (pass_out.input = << >> /\ bindings = << >> /\ scripts = << >>
                /\ inline = << >> /\ links = << >> /\ patterns = << >>)
                   => result = << >>

\* C25 witness: a returned list with records of the input pass, of the event
\* pass and of the script pass, and with a link record followed by a pattern
\* record from the URL pass.
C25_Witness ==
    /\ pc = "done"
    /\ ~raised
    /\ pass_out.input # << >>
    /\ pass_out.event # << >>
    /\ Len(pass_out.url) = 2
    /\ pass_out.url[1].type = "url_xss"
    /\ pass_out.url[2].type = "pattern_xss"

\* C26: in the engine as composed, no verdict of the script analysis carries
\* a user_input_handling entry, so no structural input is ever found
\* dangerously used: every input_xss record, of the input pass and of the
\* returned list, has severity Médio and subtype suspicious_attribute or
\* suspicious_input, never Alto / input_with_dangerous_usage.
C26_InputRecordsMedium ==
    /\ AfterScripts =>
          \A k \in DOMAIN script_analysis.script_analysis :
              "user_input_handling" \notin DOMAIN script_analysis.script_analysis[k]
    /\ \A r \in Range(pass_out.input) \cup Range(result) :
          r.type = "input_xss" =>
              /\ r.severity = "Médio"
              /\ r.subtype \in {"suspicious_attribute", "suspicious_input"}

\* C26 witness: a page with a detected visual field, a matching suspicious
\* input and a scored script, returned with a suspicious_input record.
C26_Witness ==
    /\ pc = "done"
    /\ ~raised
    /\ ~visual_analysis.is_none
    /\ script_analysis.script_analysis # << >>
    /\ \E i \in DOMAIN result :
          result[i].type = "input_xss" /\ result[i].subtype = "suspicious_input"

\* the (visual field, structural input) pairs of matched inputs that are
\* suspicious or dangerously used
ReportablePairs(fields, inputs, verdicts) ==
    { << f, i >> \in (DOMAIN fields) \X (DOMAIN inputs) :
        /\ i \in MatchedInputs(fields[f], inputs)
        /\ (inputs[i].suspicious \/ DangerouslyUsed(inputs[i], verdicts)) }

\* C27: when the visual analysis returned a result, the input pass emits as
\* many input_xss records as there are (detected field, matched input) pairs
\* whose input is suspicious or dangerously used: none when no field was
\* detected, whatever the structural inputs, and one per field for an input
\* matched by several fields, these records agreeing on url, type and
\* description.
C27_RecordsPerVisualField ==
    (AfterInputPass /\ ~visual_analysis.is_none) =>
        LET fields == visual_analysis.input_fields
            inputs == html_analysis.inputs
            out    == pass_out.input
        IN  /\ Len(out) = Cardinality(ReportablePairs(fields, inputs,
                                          script_analysis.script_analysis))
            /\ fields = << >> => out = << >>
            /\ \A n, m \in DOMAIN out :
                  out[n].html_evidence = out[m].html_evidence =>
                      /\ out[n].url = out[m].url
                      /\ out[n].type = out[m].type
                      /\ out[n].description = out[m].description

\* C27 witness: two detected fields and one suspicious input matched by
\* both: two records for the same input, at two positions, with the same
\* url, type and description.
C27_Witness ==
    /\ AfterInputPass
    /\ ~visual_analysis.is_none
    /\ Len(visual_analysis.input_fields) = 2
    /\ Len(html_analysis.inputs) = 1
    /\ Len(pass_out.input) = 2
    /\ pass_out.input[1].visual_position # pass_out.input[2].visual_position
    /\ pass_out.input[1].description = pass_out.input[2].description

\* the medium_risk_script records the script pass builds for one verdict
MediumRecords(verdict) ==
    SelectSeq(script_verdict_loop(PageUrl, << verdict >>, << >>).vulns,
              LAMBDA r : r.subtype = "medium_risk_script")

\* C28: a verdict is of level medium with a score of at least 60 exactly when
\* the content matches no high-risk signature, four of the five medium-risk
\* signatures and some obfuscation signature; its score is then 60, and every
\* medium_risk_script record the script pass builds carries risk_score 60.
C28_MediumRecordScore ==
    Scored =>
        LET h == HighCount(sc_content)
            m == MediumCount(sc_content)
            o == sc_content.matches \cap ObfSigs # {}
            reported == sc_verdict.risk_level = "medium" /\ sc_verdict.risk_score >= 60
        IN  /\ reported <=> (h = 0 /\ m = 4 /\ o)
            /\ reported => sc_verdict.risk_score = 60
            /\ reported <=> (MediumRecords(sc_verdict) # << >>)
            /\ \A k \in DOMAIN MediumRecords(sc_verdict) :
                  MediumRecords(sc_verdict)[k].risk_score = 60

\* C28 witness: four medium-risk signatures and two obfuscation signatures,
\* no high-risk one: level medium, score 60, one medium_risk_script record.
C28_Witness ==
    /\ sc_pc = "scored"
    /\ HighCount(sc_content) = 0
    /\ MediumCount(sc_content) = 4
    /\ Cardinality(sc_content.matches \cap ObfSigs) = 2
    /\ Len(MediumRecords(sc_verdict)) = 1
    /\ MediumRecords(sc_verdict)[1].risk_score = 60

\* no URL occurs twice in a list of records with a url field
DistinctUrls(records) ==
    \A i, j \in DOMAIN records : records[i].url = records[j].url => i = j

FetchedOnce ==
    cr_pc \in {"crawling", "returned"} =>
        /\ DistinctUrls(fetched)
        /\ \A i \in DOMAIN fetched : fetched[i].url \in visited_urls
        /\ DistinctUrls(pages_data)
        /\ \A i \in DOMAIN pages_data : pages_data[i].url \in visited_urls
        /\ \A i \in DOMAIN pages_data :
              \E k \in DOMAIN fetched : fetched[k].url = pages_data[i].url

\* a step of the crawl proper removes no URL from visited_urls, and a step
\* that fetches a URL is the step that adds it
VisitedGrows ==
    cr_pc = "crawling" =>
        /\ visited_urls \subseteq visited_urls'
        /\ fetched' # fetched =>
              /\ fetched' = Append(fetched, fetched'[Len(fetched')])
              /\ fetched'[Len(fetched')].url \in visited_urls' \ visited_urls

\* C29: during a crawl no URL is fetched twice: a URL is put into
\* visited_urls by the step that fetches it, no step of the crawl removes a
\* URL from visited_urls, and a URL in it is not fetched again, whether its
\* fetch found the page or failed; so the page records collected have
\* pairwise distinct URLs, each of them in visited_urls.
C29_FetchedOnce == [] FetchedOnce /\ [][VisitedGrows]_vars

\* C29 witness: the crawl has returned; some URL's fetch failed, a link to
\* that URL was followed again afterwards, and it was fetched that once only.
C29_Witness ==
    /\ cr_pc = "returned"
    /\ pages_data # << >>
    /\ \E k \in DOMAIN fetched :
          /\ \A i \in DOMAIN pages_data : pages_data[i].url # fetched[k].url
          /\ Cardinality({ n \in DOMAIN followed : followed[n].to = fetched[k].url }) >= 2

\* the followed links that start at the page of `url`
FollowedFrom(url) == { n \in DOMAIN followed : followed[n].from = url }

CrawlBounded ==
    /\ \A k \in DOMAIN fetched :
          /\ fetched[k].depth >= 1
          /\ fetched[k].hops < cr_args.depth
          /\ fetched[k].hops + fetched[k].depth = cr_args.depth
          /\ fetched[k].hops = 0 => fetched[k].url = cr_args.start_url
          /\ fetched[k].hops > 0 =>
                \E g \in 1..(k - 1) :
                    /\ fetched[g].hops = fetched[k].hops - 1
                    /\ \E n \in DOMAIN followed :
                          /\ followed[n].from = fetched[g].url
                          /\ followed[n].to = fetched[k].url
    /\ cr_args.depth <= 0 => fetched = << >>
    /\ \A url \in SiteUrls : Cardinality(FollowedFrom(url)) <= 10
    /\ \A n \in DOMAIN followed :
          /\ netloc_of(followed[n].to) = netloc_of(followed[n].from)
          /\ netloc_of(followed[n].to) = netloc_of(cr_args.start_url)
          /\ \E i \in DOMAIN site[followed[n].from] :
                site[followed[n].from][i] = followed[n].to

\* C30: crawl returns on every link graph, cyclic ones included; a URL is
\* fetched only with a remaining depth of at least 1, each followed link
\* lowering it by one, so that every fetched page is reached from start_url
\* by a chain of fewer than depth followed links (none is fetched for a depth
\* of 0 or less); no page has more than 10 of its links followed, and every
\* followed link is on the network location of its page and of start_url.
C30_CrawlTerminates == [] CrawlBounded /\ <> (cr_pc = "returned")

\* C30 witness: a returned crawl of depth 3 on a site whose pages link to one
\* another in a cycle, one page with twelve links of which ten were followed,
\* and a page fetched at the end of a chain of two followed links.
C30_Witness ==
    /\ cr_pc = "returned"
    /\ cr_args.depth = 3
    /\ \E k \in DOMAIN fetched : fetched[k].hops = 2 /\ fetched[k].depth = 1
    /\ \E url \in SiteUrls :
          /\ Len(site[url]) = 12
          /\ Cardinality(FollowedFrom(url)) = 10
    /\ \E i \in DOMAIN site[UrlC] : site[UrlC][i] = UrlA
====
